---- MODULE Spec2Model ----
(***************************************************************************)
(* State-machine model of the voca vocabulary-drill engine.                *)
(*                                                                         *)
(* The repository has several entry points; Init picks the one that runs   *)
(* (variable prog):                                                        *)
(*   "ledger" : SingleSession.run over the spreadsheet-backed Vocabulary   *)
(*              and the performance ledger (single_session.py,             *)
(*              vocabulary.py, single_vocabulary.py, performance.py)       *)
(*   "unit"   : VocabLearningSession.run over VocabLearningUnit cards      *)
(*   "gen"    : VocabularyBuilder.generate                                 *)
(*   "trans"  : VocabularyTranslator.translate_batch                       *)
(*   "sent"   : SentenceBuilder.generate                                   *)
(*                                                                         *)
(* Text is modelled as a sequence of one-character strings so that         *)
(* str.strip() is computed, not assumed.                                   *)
(***************************************************************************)
EXTENDS Integers, Sequences, FiniteSets, TLC

VARIABLES
    prog,            \* entry point that runs in this behaviour
    \* ---- ledger path: persisted sheet tabs and the running SingleSession
    updateMode,      \* SmartTab.update_row_by_column_pattern: "first" | "all" matching rows
    sheetVocab,      \* persisted vocabulary tab (rows)
    sheetPerf,       \* persisted performance tab (attempt records)
    vocabData,       \* Vocabulary.vocabulary(): in-memory DataFrame of the vocabulary tab
    perfData,        \* performance_tab.data: in-memory DataFrame of the ledger
    sPc,             \* "idle" | "posed" | "answered" | "finishing"
    sessions,        \* number of SingleSession.run calls started
    category,        \* SingleSession.category
    numWords,        \* SingleSession.num_words passed as n
    vocabList,       \* Vocabulary.vocab_list: row indices of the selected cards
    cardIdx,         \* position of the for-loop over vocab_list
    translationGiven,\* SingleVocabulary.translation_given
    clock,           \* datetime.now()
    lastOutcome,     \* how the last session ended
    \* ---- history of the ledger path (read by the properties only)
    poolRows,        \* rows of the candidate pool handed to sample_vocab
    pickLedger,      \* ledger content at the call of pick_random_vocabularies
    cardStartLedger, \* ledger content when the current card was posed
    evalCalls,       \* evaluator calls made by the session so far
    cardEnd,         \* the last final input: [raw, rating, calls]; calls < 0 while unrated
    evalFailedAt,    \* card position at which the evaluator failed (0: never)
    optionTaken,     \* the last option input of the posed card and what it did (history)
    \* ---- unit path: VocabularyStore and the running VocabLearningSession
    store,           \* VocabularyStore._vocabs
    uN,              \* VocabLearningSession.n
    uTypes,          \* VocabLearningSession.vocab_types (<<>>: no filter)
    uCats,           \* VocabLearningSession.categories (<<>>: no filter)
    uPc,             \* "idle" | "posed" | "evaluating" | "done" | "failed"
    uPool,           \* candidates of _select_cards before sampling (history)
    uCards,          \* cards returned by _select_cards
    uIdx,            \* position of the for-loop over cards
    uAnswer,         \* user_input handed to evaluate_answer
    uResults,        \* results list of run()
    \* ---- ingestion: the generator boundary
    lastResp,        \* last response of the generator (history)
    \* ---- VocabularyBuilder.generate
    gMode,           \* generator behaviour: "any" | "fresh" | "freshThenNone"
    gN,              \* n
    gBatch,          \* batch_size
    gExisting,       \* existing_vocab
    gSeen,           \* seen
    gResults,        \* results
    gRemaining,      \* remaining
    gCalls,          \* calls of _call_llm_for_vocabulary so far (history)
    gFresh,          \* fresh meanings the generator has handed out (generator state)
    gPc,             \* "idle" | "loop" | "done" | "raised"
    gReturned,       \* return value of generate
    \* ---- VocabularyTranslator.translate_batch
    tSources,        \* source_vocabs
    tBatch,          \* batch_size
    tIdx,            \* idx
    tSeen,           \* seen
    tResults,        \* results
    tCalls,          \* batches handed to the generator, in call order (history)
    tPc,             \* "idle" | "loop" | "done" | "raised"
    \* ---- SentenceBuilder.generate
    bBase,           \* SentenceBuilder.vocab, the base entry
    bResults,        \* sentence objects returned by the last run
    bRuns,           \* runs of generate so far
    bPc,             \* "idle" | "done" | "raised"
    \* ---- VocabularyStore over its directory
    cacheMode,       \* JSONCache on an unreadable file: "raises" | "hollow" object
    files,           \* the directory: one record [data_id, body] per *.json file
    stVocabs,        \* VocabularyStore._vocabs
    stPc,            \* "ready" | "raised"
    stLast,          \* the last store operation (history)
    \* ---- compute_vocab_weights
    wTable,          \* df: rows with "overall rating" and "num ratings"
    wNeutral,        \* neutral_avg passed to sample_vocab
    wWeights,        \* the weights returned, None before the call
    \* ---- one SingleVocabulary object in a directory (the directory is files)
    eObj,            \* the object, None before a construction and after a raising one
    eArgs,           \* the arguments of the last constructor call, None if by data_id
    eLinked,         \* the list load_linked_sentences returned last, None before
    eLast,           \* the last operation (history)
    \* ---- VocabLearningUnit.__init__
    cSource,         \* source_vocab
    cTarget,         \* target_vocab
    cApiKey,         \* whether an API key is passed or set in the environment
    cUnit            \* the outcome of the constructor, "none" before the call

ledgerVars == << updateMode, sheetVocab, sheetPerf, vocabData, perfData, sPc,
                 sessions, category, numWords, vocabList, cardIdx,
                 translationGiven, clock, lastOutcome, poolRows, pickLedger,
                 cardStartLedger, evalCalls, cardEnd, evalFailedAt >>

unitVars == << store, uN, uTypes, uCats, uPc, uPool, uCards, uIdx, uAnswer, uResults >>

genVars == << gMode, gN, gBatch, gExisting, gSeen, gResults, gRemaining, gCalls, gFresh,
             gPc, gReturned >>

transVars == << tSources, tBatch, tIdx, tSeen, tResults, tCalls, tPc >>

sentVars == << bBase, bResults, bRuns, bPc >>

ingestVars == << lastResp, genVars, transVars, sentVars >>

nonLedger == << unitVars, ingestVars >>

storeVars == << cacheMode, files, stVocabs, stPc, stLast >>

weightVars == << wTable, wNeutral, wWeights >>

entryVars == << eObj, eArgs, eLinked, eLast >>

cardVars == << cSource, cTarget, cApiKey, cUnit >>

auxVars == << storeVars, weightVars, entryVars, cardVars >>

vars == << prog, auxVars, optionTaken, ledgerVars, unitVars, ingestVars >>

\* ------------------------------------------------------------------ bounds
MaxSessions == 2
MaxN == 3
MaxLedger == 3

\* ------------------------------------------------------------ text helpers
RECURSIVE LStrip(_)
LStrip(s) == IF s # <<>> /\ Head(s) = " " THEN LStrip(Tail(s)) ELSE s

RECURSIVE RStrip(_)
RStrip(s) == IF s # <<>> /\ s[Len(s)] = " " THEN RStrip(SubSeq(s, 1, Len(s) - 1)) ELSE s

\* str.strip()
Strip(s) == RStrip(LStrip(s))

\* what the learner may type at a prompt
RawInputs == { <<>>, <<" ">>, <<"1">>, <<"2">>, <<"3">>, <<"3", " ">>, <<"h">>, <<" ", "h">> }

\* ------------------------------------------------------- ledger path: data
NoDate == 0
SkipRating == 0 - 1
Ratings == {20, 90}

\* the vocabulary tab's (source, translation, category) columns
VocabUniverse ==
    << [source |-> "a", translation |-> "x", category |-> "c1"],
       [source |-> "b", translation |-> "y", category |-> "c1"],
       [source |-> "a", translation |-> "y", category |-> "c2"] >>

FreshRow(r) == [source |-> r.source, translation |-> r.translation, category |-> r.category,
                lastCheck |-> NoDate, overallRating |-> 0, numRatings |-> 0]

RECURSIVE SubTable(_, _)
SubTable(keep, i) ==
    IF i > Len(VocabUniverse) THEN <<>>
    ELSE (IF i \in keep THEN << FreshRow(VocabUniverse[i]) >> ELSE <<>>) \o SubTable(keep, i + 1)

\* the tables a sheet can hold: every non-empty selection of the universe's rows
InitialTables == { SubTable(keep, 1) : keep \in (SUBSET (1..Len(VocabUniverse))) \ {{}} }

RECURSIVE SeqSum(_)
SeqSum(s) == IF s = <<>> THEN 0 ELSE Head(s) + SeqSum(Tail(s))

RECURSIVE SeqMax(_)
SeqMax(s) == IF Len(s) = 1 THEN Head(s)
             ELSE (IF Head(s) >= SeqMax(Tail(s)) THEN Head(s) ELSE SeqMax(Tail(s)))

\* Performance.performance_data
PerformanceData(tab, source, translation, direction) ==
    SelectSeq(tab, LAMBDA r : r.source = source /\ r.translation = translation
                              /\ r.direction = direction)

OverallRatingWithoutSkips(tab, source, translation, direction) ==
    LET d == SelectSeq(PerformanceData(tab, source, translation, direction),
                       LAMBDA r : r.rating >= 0)
    IN  IF Len(d) = 0 THEN 0 ELSE SeqSum([i \in 1..Len(d) |-> d[i].rating])

\* Performance.overall_rating
OverallRating(tab, source, translation, direction) ==
    LET d == PerformanceData(tab, source, translation, direction)
    IN  IF Len(d) = 0 THEN 0 ELSE SeqSum([i \in 1..Len(d) |-> d[i].rating])

\* Performance.num_ratings
NumRatings(tab, source, translation, direction) ==
    LET d == PerformanceData(tab, source, translation, direction)
    IN  IF Len(d) = 0 THEN 0 ELSE Len(d)

\* Performance.last_check
LastCheck(tab, source, translation, direction) ==
    LET d == PerformanceData(tab, source, translation, direction)
    IN  IF Len(d) = 0 THEN NoDate ELSE SeqMax([i \in 1..Len(d) |-> d[i].date])

SetMin(S) == CHOOSE x \in S : \A y \in S : x <= y

\* SmartTab.update_row_by_column_pattern(column="source", value, updates) as align_all uses it:
\* the rows whose source equals value get the updates (the first one, or all of them,
\* depending on the tab implementation); without a match a new row is added.
UpdateRowByColumnPattern(data, value, updates, mode) ==
    LET matches == { i \in 1..Len(data) : data[i].source = value }
        hit == IF mode = "first" THEN {SetMin(matches)} ELSE matches
    IN  IF matches = {}
        THEN Append(data, [source |-> value, translation |-> "", category |-> "",
                           lastCheck |-> updates.lastCheck,
                           overallRating |-> updates.overallRating,
                           numRatings |-> updates.numRatings])
        ELSE [i \in 1..Len(data) |->
                IF i \in hit
                THEN [data[i] EXCEPT !.lastCheck = updates.lastCheck,
                                     !.overallRating = updates.overallRating,
                                     !.numRatings = updates.numRatings]
                ELSE data[i]]

\* Vocabulary.align_all: the loop over the rows (a snapshot, to_dict) from row i on
RECURSIVE AlignFrom(_, _, _, _, _)
AlignFrom(data, snapshot, i, tab, mode) ==
    IF i > Len(snapshot) THEN data
    ELSE LET row == snapshot[i]
             updates == [lastCheck |-> LastCheck(tab, row.source, row.translation, "source"),
                         overallRating |-> OverallRating(tab, row.source, row.translation, "source"),
                         numRatings |-> NumRatings(tab, row.source, row.translation, "source")]
         IN  AlignFrom(UpdateRowByColumnPattern(data, row.source, updates, mode),
                       snapshot, i + 1, tab, mode)

AlignAll(data, tab, mode) == AlignFrom(data, data, 1, tab, mode)

\* Vocabulary.categories
CategoriesOf(data) == { data[i].category : i \in 1..Len(data) }

\* pick_random_vocabularies: subset = rows whose category is in categories
SubsetRows(data, cats) == { i \in 1..Len(data) : data[i].category \in cats }

\* numpy Generator.choice(indices, size=n, replace=False, p=probs): the possible outcomes.
\* Every weight 2.0 ** x is positive, so every index can be drawn while it is left.
RECURSIVE RngChoiceWithReplacement(_, _)
RngChoiceWithReplacement(indices, n) ==
    IF n = 0 THEN { <<>> }
    ELSE { <<i>> \o rest : i \in indices, rest \in RngChoiceWithReplacement(indices, n - 1) }

RECURSIVE RngChoice(_, _)
RngChoice(indices, n) ==
    IF n = 0 THEN { <<>> }
    ELSE UNION { { <<i>> \o rest : rest \in RngChoice(indices \ {i}, n - 1) } : i \in indices }

\* sample_vocab raises ValueError when n > len(df)
SampleRejects(df, n) == n > Cardinality(df)

\* the row appended by ask_and_rate (direction is "source" for every card of a session)
AttemptRecord(date, words, userInput, rating, hint) ==
    [date |-> date, source |-> words[1], translation |-> words[2],
     user_input |-> userInput, rating |-> rating, hint |-> hint, direction |-> "source"]

\* performance_tab.data.loc[len(data)] = {...}
OverwriteLastRecord(tab, rec) ==
    IF tab = <<>> THEN << rec >> ELSE [tab EXCEPT ![Len(tab)] = rec]

PrependRecord(tab, rec) == << rec >> \o tab

AppendRecord(tab, rec) == Append(tab, rec)

\* ask_and_rate when rate_translation raises: the exception leaves before the append
HalfWrittenRecord(tab, rec) == Append(tab, [rec EXCEPT !.rating = SkipRating])

LedgerAfterFailedRating(tab, rec) == tab

\* rate_translation: an empty translation is rated without the evaluator
IsEmptyTranslation(t) == Strip(t) = <<>>

\* ask_translation: user_input = input(...).strip()
AskTranslationInput(raw) == Strip(raw)

WordsOf(data, i) == << data[i].source, data[i].translation >>

NoCardEnd == [raw |-> <<>>, rating |-> 0, calls |-> 0 - 1]

\* no option input since the card was posed
NoOption == [input |-> "", effect |-> "none"]

\* ask_translation: what the inputs "1" and "3" do
AskTranslationOption(user_input) ==
    IF user_input = <<"1">> THEN [input |-> "1", effect |-> "say_word"]
    ELSE [input |-> "3", effect |-> "print_word"]

\* ---------------------------------------------------------- ledger path: Init
LedgerIdle ==
    /\ optionTaken = NoOption
    /\ sPc = "idle" /\ sessions = 0 /\ category = "" /\ numWords = 0
    /\ vocabList = <<>> /\ cardIdx = 0 /\ translationGiven = <<>>
    /\ clock = 1 /\ lastOutcome = "none"
    /\ poolRows = {} /\ pickLedger = <<>> /\ cardStartLedger = <<>>
    /\ evalCalls = 0 /\ cardEnd = NoCardEnd /\ evalFailedAt = 0

\* ------------------------------------------------------- ledger path: actions

\* SingleSession.run up to the for-loop: a new process loads the tabs, the learner
\* selects a category, pick_random_vocabularies(n, [category]) draws the cards.
StartSession(cat, n) ==
    /\ prog = "ledger" /\ sPc = "idle" /\ sessions < MaxSessions
    /\ cat \in CategoriesOf(sheetVocab)
    /\ LET subset == SubsetRows(sheetVocab, {cat})
       IN  /\ Len(sheetPerf) + (IF n > Cardinality(subset) THEN 0 ELSE n) <= MaxLedger
           /\ sessions' = sessions + 1
           /\ vocabData' = sheetVocab
           /\ perfData' = sheetPerf
           /\ category' = cat
           /\ numWords' = n
           /\ poolRows' = subset
           /\ cardEnd' = NoCardEnd
           /\ optionTaken' = NoOption
           /\ evalFailedAt' = 0
           /\ evalCalls' = 0
           /\ translationGiven' = <<>>
           /\ cardStartLedger' = sheetPerf
           /\ IF SampleRejects(subset, n)
              THEN /\ sPc' = "idle"
                   /\ lastOutcome' = "ValueError"
                   /\ vocabList' = <<>>
                   /\ cardIdx' = 0
                   /\ pickLedger' = pickLedger
              ELSE /\ \E chosen \in RngChoice(subset, n) : vocabList' = chosen
                   /\ pickLedger' = sheetPerf
                   /\ cardIdx' = 1
                   /\ sPc' = IF n = 0 THEN "finishing" ELSE "posed"
                   /\ lastOutcome' = "running"
    /\ UNCHANGED << prog, auxVars, nonLedger, updateMode, sheetVocab, sheetPerf, clock >>

\* ask_translation: one pass of the input loop
AskTranslation(raw) ==
    /\ prog = "ledger" /\ sPc = "posed"
    /\ LET user_input == AskTranslationInput(raw)
       IN  IF user_input \in { <<"1">>, <<"3">> }
           THEN /\ optionTaken' = AskTranslationOption(user_input)
                /\ UNCHANGED << sPc, translationGiven, cardEnd >>
           ELSE /\ user_input # <<"2">>
                /\ translationGiven' = user_input
                /\ optionTaken' = NoOption
                /\ cardEnd' = [raw |-> raw, rating |-> 0, calls |-> 0 - 1]
                /\ sPc' = "answered"
    /\ UNCHANGED << prog, auxVars, nonLedger, updateMode, sheetVocab, sheetPerf, vocabData, perfData, sessions,
                    category, numWords, vocabList, cardIdx, clock, lastOutcome, poolRows,
                    pickLedger, cardStartLedger, evalCalls, evalFailedAt >>

\* ask_translation, input "2": say_sentence needs the sentences of the generator;
\* sentences() awaits SentenceGenerator.generate, which may raise, and
\* random.randint(1, len(sentences)) raises for an empty or missing list
HintSentence(generatorOk) ==
    /\ prog = "ledger" /\ sPc = "posed"
    /\ IF generatorOk
       THEN /\ optionTaken' = [input |-> "2", effect |-> "say_sentence"]
            /\ UNCHANGED << sPc, lastOutcome >>
       ELSE /\ optionTaken' = [input |-> "2", effect |-> "raised"]
            /\ sPc' = "idle" /\ lastOutcome' = "GeneratorError"
    /\ UNCHANGED << prog, auxVars, nonLedger, updateMode, sheetVocab, sheetPerf, vocabData, perfData, sessions,
                    category, numWords, vocabList, cardIdx, translationGiven, clock, poolRows,
                    pickLedger, cardStartLedger, evalCalls, cardEnd, evalFailedAt >>

NextCard ==
    /\ cardIdx' = cardIdx + 1
    /\ sPc' = IF cardIdx = Len(vocabList) THEN "finishing" ELSE "posed"
    /\ clock' = clock + 1

\* ask_and_rate after the answer: rate_translation with an empty translation
RateSkip ==
    /\ prog = "ledger" /\ sPc = "answered"
    /\ IsEmptyTranslation(translationGiven)
    /\ LET rec == AttemptRecord(clock, WordsOf(vocabData, vocabList[cardIdx]),
                                translationGiven, SkipRating, <<>>)
       IN  /\ perfData' = AppendRecord(perfData, rec)
           /\ cardStartLedger' = perfData'
           /\ cardEnd' = [cardEnd EXCEPT !.rating = SkipRating, !.calls = 0]
    /\ NextCard
    /\ UNCHANGED << prog, auxVars, optionTaken, nonLedger, updateMode, sheetVocab, sheetPerf, vocabData, sessions, category,
                    numWords, vocabList, translationGiven, lastOutcome, poolRows, pickLedger,
                    evalCalls, evalFailedAt >>

\* ask_and_rate after the answer: the evaluator answers with a rating
RateOk(rating) ==
    /\ prog = "ledger" /\ sPc = "answered"
    /\ ~IsEmptyTranslation(translationGiven)
    /\ LET rec == AttemptRecord(clock, WordsOf(vocabData, vocabList[cardIdx]),
                                translationGiven, rating, <<"o", "k">>)
       IN  /\ perfData' = AppendRecord(perfData, rec)
           /\ cardStartLedger' = perfData'
           /\ cardEnd' = [cardEnd EXCEPT !.rating = rating, !.calls = 1]
    /\ evalCalls' = evalCalls + 1
    /\ NextCard
    /\ UNCHANGED << prog, auxVars, optionTaken, nonLedger, updateMode, sheetVocab, sheetPerf, vocabData, sessions, category,
                    numWords, vocabList, translationGiven, lastOutcome, poolRows, pickLedger,
                    evalFailedAt >>

\* ask_and_rate after the answer: the evaluator call raises, run() has no handler
RateFail ==
    /\ prog = "ledger" /\ sPc = "answered"
    /\ ~IsEmptyTranslation(translationGiven)
    /\ LET rec == AttemptRecord(clock, WordsOf(vocabData, vocabList[cardIdx]),
                                translationGiven, 0, <<>>)
       IN  perfData' = LedgerAfterFailedRating(perfData, rec)
    /\ cardEnd' = [cardEnd EXCEPT !.calls = 1]
    /\ evalCalls' = evalCalls + 1
    /\ evalFailedAt' = cardIdx
    /\ sPc' = "idle"
    /\ lastOutcome' = "EvalError"
    /\ UNCHANGED << prog, auxVars, optionTaken, nonLedger, updateMode, sheetVocab, sheetPerf, vocabData, sessions, category,
                    numWords, vocabList, cardIdx, translationGiven, clock, poolRows,
                    pickLedger, cardStartLedger >>

\* the learner aborts the session while a card waits for input or for the evaluator
Cancel ==
    /\ prog = "ledger" /\ sPc \in {"posed", "answered"}
    /\ sPc' = "idle"
    /\ lastOutcome' = "Cancelled"
    /\ optionTaken' = NoOption
    /\ UNCHANGED << prog, auxVars, nonLedger, updateMode, sheetVocab, sheetPerf, vocabData, perfData, sessions,
                    category, numWords, vocabList, cardIdx, translationGiven, clock, poolRows,
                    pickLedger, cardStartLedger, evalCalls, cardEnd, evalFailedAt >>

\* performance_tab().start_background_write(interval=60): the periodic flush of the ledger
BackgroundWrite ==
    /\ prog = "ledger" /\ sPc # "idle"
    /\ sheetPerf # perfData
    /\ sheetPerf' = perfData
    /\ UNCHANGED << prog, auxVars, optionTaken, nonLedger, updateMode, sheetVocab, vocabData, perfData, sPc, sessions,
                    category, numWords, vocabList, cardIdx, translationGiven, clock,
                    lastOutcome, poolRows, pickLedger, cardStartLedger, evalCalls, cardEnd,
                    evalFailedAt >>

\* SingleSession.run after the for-loop: write_data() of the ledger, then align_all()
FinishSession ==
    /\ prog = "ledger" /\ sPc = "finishing"
    /\ sheetPerf' = perfData
    /\ vocabData' = AlignAll(vocabData, perfData, updateMode)
    /\ sheetVocab' = vocabData'
    /\ sPc' = "idle"
    /\ lastOutcome' = "completed"
    /\ UNCHANGED << prog, auxVars, optionTaken, nonLedger, updateMode, perfData, sessions, category, numWords, vocabList,
                    cardIdx, translationGiven, clock, poolRows, pickLedger, cardStartLedger,
                    evalCalls, cardEnd, evalFailedAt >>

NextLedger ==
    \/ \E cat \in {"c1", "c2"}, n \in 0..MaxN : StartSession(cat, n)
    \/ \E raw \in RawInputs : AskTranslation(raw)
    \/ \E ok \in BOOLEAN : HintSentence(ok)
    \/ RateSkip
    \/ \E r \in Ratings : RateOk(r)
    \/ RateFail
    \/ Cancel
    \/ BackgroundWrite
    \/ FinishSession


\* ================================================================ unit path
FR == <<"f", "r">>
DE == <<"d", "e">>
ES == <<"e", "s">>
NOUN == <<"n">>
VERB == <<"v">>
PHRASE == <<"p">>
BASICS == <<"b">>

SourceLanguage == FR
TargetLanguage == DE

\* the entries a store may hold (v_single_vocab.SingleVocabulary)
EntryUniverse ==
    << [meaning_en |-> <<"d">>, language |-> FR, word |-> << "chien" >>, vocab_types |-> << NOUN >>,
        categories |-> << BASICS >>],
       [meaning_en |-> <<"d">>, language |-> DE, word |-> << "Hund" >>, vocab_types |-> << NOUN >>,
        categories |-> << BASICS >>],
       [meaning_en |-> <<"c">>, language |-> FR, word |-> << "chat" >>, vocab_types |-> << NOUN >>,
        categories |-> <<>>],
       [meaning_en |-> <<"c">>, language |-> DE, word |-> << "Katze" >>, vocab_types |-> << NOUN >>,
        categories |-> << BASICS >>],
       [meaning_en |-> <<"r">>, language |-> FR, word |-> << "courir" >>, vocab_types |-> << VERB >>,
        categories |-> << BASICS >>],
       [meaning_en |-> <<"r">>, language |-> DE, word |-> << "laufen" >>, vocab_types |-> << VERB >>,
        categories |-> << BASICS >>],
       [meaning_en |-> <<"r">>, language |-> ES, word |-> << "correr" >>, vocab_types |-> << VERB >>,
        categories |-> << BASICS >>],
       [meaning_en |-> <<"d">>, language |-> DE, word |-> <<>>, vocab_types |-> << NOUN >>,
        categories |-> << BASICS >>] >>

RECURSIVE SubStore(_, _)
SubStore(keep, i) ==
    IF i > Len(EntryUniverse) THEN <<>>
    ELSE (IF i \in keep THEN << EntryUniverse[i] >> ELSE <<>>) \o SubStore(keep, i + 1)

InitialStores == { SubStore(keep, 1) : keep \in SUBSET (1..Len(EntryUniverse)) }

\* _matches_vocab_types
MatchesVocabTypes(v, types) == types = <<>> \/ v.vocab_types = types

\* _matches_categories
MatchesCategories(v, cats) ==
    \/ cats = <<>>
    \/ /\ v.categories # <<>>
       /\ \E i \in 1..Len(cats), j \in 1..Len(v.categories) : cats[i] = v.categories[j]

GroupKey(v) == << v.meaning_en, v.vocab_types >>

\* the keys of groups in insertion order (a dict keeps the order of first insertion)
RECURSIVE GroupKeys(_, _)
GroupKeys(relevant, seen) ==
    IF relevant = <<>> THEN <<>>
    ELSE LET k == GroupKey(Head(relevant))
         IN  IF k \in seen THEN GroupKeys(Tail(relevant), seen)
             ELSE << k >> \o GroupKeys(Tail(relevant), seen \cup {k})

\* groups[key].get(language): the last entry of the key in that language, <<>> when none
LangMapGet(relevant, key, language) ==
    LET hits == { i \in 1..Len(relevant) :
                    GroupKey(relevant[i]) = key /\ relevant[i].language = language }
    IN  IF hits = {} THEN <<>>
        ELSE << relevant[CHOOSE i \in hits : \A j \in hits : j <= i] >>

\* bool(v) of an entry: SingleVocabulary defines __len__ as the length of its word
\* (v_single_vocab.py, lines 119-120), so an entry with an empty word is false
Truthy(v) == Len(v.word) > 0

\* _select_cards, lines 60-79: the candidate pairs
Candidates(all_vocabs, types, cats) ==
    LET relevant == SelectSeq(all_vocabs,
                        LAMBDA v : /\ v.language \in {SourceLanguage, TargetLanguage}
                                   /\ MatchesVocabTypes(v, types)
                                   /\ MatchesCategories(v, cats))
        keys == GroupKeys(relevant, {})
        pairOf(k) == LET src == LangMapGet(relevant, k, SourceLanguage)
                         tgt == LangMapGet(relevant, k, TargetLanguage)
                     IN  IF src # <<>> /\ tgt # <<>> /\ Truthy(src[1]) /\ Truthy(tgt[1])
                         THEN << [src |-> src[1], tgt |-> tgt[1]] >>
                         ELSE <<>>
        build[i \in 0..Len(keys)] == IF i = 0 THEN <<>> ELSE build[i - 1] \o pairOf(keys[i])
    IN  build[Len(keys)]

\* random.sample(candidates, k): the possible outcomes
RandomSample(candidates, k) ==
    { [j \in 1..k |-> candidates[pos[j]]] : pos \in RngChoice(1..Len(candidates), k) }

Min(a, b) == IF a <= b THEN a ELSE b

\* _select_cards, lines 81-88: the possible returns
SelectCards(candidates, n) ==
    IF candidates = <<>> THEN { <<>> }
    ELSE LET sample_n == Min(n, Len(candidates))
         IN  IF sample_n < Len(candidates) THEN RandomSample(candidates, sample_n)
             ELSE { candidates }

\* run_interaction: what the inputs "1", "2" and "3" do
UnitOption(user_input) ==
    IF user_input = <<"1">> THEN [input |-> "1", effect |-> "say_word"]
    ELSE IF user_input = <<"2">> THEN [input |-> "2", effect |-> "not_implemented"]
    ELSE [input |-> "3", effect |-> "print_word"]

UnitInputNoStrip(raw) == raw

\* run_interaction: user_input = input("> ").strip()
UnitInput(raw) == Strip(raw)

ResultOf(card, score, hints) ==
    [meaning_en |-> card.src.meaning_en, source_language |-> card.src.language,
     source_word |-> card.src.word, target_language |-> card.tgt.language,
     target_word |-> card.tgt.word, score |-> score, hints |-> hints]

\* VocabLearningSession.run up to the for-loop: _select_cards
UnitSelectCards ==
    /\ prog = "unit" /\ uPc = "idle"
    /\ LET candidates == Candidates(store, uTypes, uCats)
       IN  /\ uPool' = candidates
           /\ \E cards \in SelectCards(candidates, uN) :
                 /\ uCards' = cards
                 /\ uPc' = IF cards = <<>> THEN "done" ELSE "posed"
    /\ uIdx' = 1
    /\ uResults' = <<>>
    /\ UNCHANGED << prog, auxVars, optionTaken, ledgerVars, ingestVars, store, uN, uTypes, uCats, uAnswer >>

UnitNextCard ==
    /\ uIdx' = uIdx + 1
    /\ uPc' = IF uIdx = Len(uCards) THEN "done" ELSE "posed"

\* run_interaction: one pass of the input loop
UnitAsk(raw) ==
    /\ prog = "unit" /\ uPc = "posed"
    /\ LET user_input == UnitInput(raw)
       IN  IF user_input \in { <<"1">>, <<"2">>, <<"3">> }
           THEN /\ optionTaken' = UnitOption(user_input)
                /\ UNCHANGED << uPc, uIdx, uAnswer, uResults, cardEnd >>
           ELSE IF user_input = <<>>
           THEN /\ uResults' = Append(uResults, ResultOf(uCards[uIdx], 0, <<>>))
                /\ cardEnd' = [raw |-> raw, rating |-> 0, calls |-> 0]
                /\ uAnswer' = user_input
                /\ optionTaken' = NoOption
                /\ UnitNextCard
           ELSE /\ uAnswer' = user_input
                /\ uPc' = "evaluating"
                /\ cardEnd' = [raw |-> raw, rating |-> 0, calls |-> 0 - 1]
                /\ optionTaken' = NoOption
                /\ UNCHANGED << uIdx, uResults >>
    /\ UNCHANGED << prog, auxVars, ingestVars, updateMode, sheetVocab, sheetPerf, vocabData, perfData, sPc,
                    sessions, category, numWords, vocabList, cardIdx, translationGiven,
                    clock, lastOutcome, poolRows, pickLedger, cardStartLedger, evalCalls,
                    evalFailedAt, store, uN, uTypes, uCats, uPool, uCards >>

\* evaluate_answer: the evaluator answers with a score
UnitEvalOk(score) ==
    /\ prog = "unit" /\ uPc = "evaluating"
    /\ uResults' = Append(uResults, ResultOf(uCards[uIdx], score, <<"o", "k">>))
    /\ cardEnd' = [cardEnd EXCEPT !.rating = score, !.calls = 1]
    /\ evalCalls' = evalCalls + 1
    /\ UnitNextCard
    /\ UNCHANGED << prog, auxVars, optionTaken, ingestVars, updateMode, sheetVocab, sheetPerf, vocabData, perfData, sPc,
                    sessions, category, numWords, vocabList, cardIdx, translationGiven,
                    clock, lastOutcome, poolRows, pickLedger, cardStartLedger,
                    evalFailedAt, store, uN, uTypes, uCats, uPool, uCards, uAnswer >>

\* evaluate_answer raises (llm.execute or _parse_rating_response): run() has no handler
UnitEvalFail ==
    /\ prog = "unit" /\ uPc = "evaluating"
    /\ cardEnd' = [cardEnd EXCEPT !.calls = 1]
    /\ evalCalls' = evalCalls + 1
    /\ evalFailedAt' = uIdx
    /\ uPc' = "failed"
    /\ UNCHANGED << prog, auxVars, optionTaken, ingestVars, updateMode, sheetVocab, sheetPerf, vocabData, perfData, sPc,
                    sessions, category, numWords, vocabList, cardIdx, translationGiven,
                    clock, lastOutcome, poolRows, pickLedger, cardStartLedger,
                    store, uN, uTypes, uCats, uPool, uCards, uIdx, uAnswer, uResults >>

NextUnit ==
    \/ UnitSelectCards
    \/ \E raw \in RawInputs : UnitAsk(raw)
    \/ \E score \in Ratings : UnitEvalOk(score)
    \/ UnitEvalFail


\* ================================================================ ingestion
MaxGenN == 2
MaxBatch == 2
MaxSentRuns == 2
ScenarioN == 20
ScenarioBatch == 10

None == <<>>
Some(x) == << x >>

\* one element of the generator's "vocabulary" list; a field that is missing or not of
\* the expected type is None
Item(isMap, meaning_en, language, word, categories, vocab_types) ==
    [isMap |-> isMap, meaning_en |-> meaning_en, language |-> language, word |-> word,
     categories |-> categories, vocab_types |-> vocab_types]

ItemUniverse ==
    { Item(TRUE, Some(<<"d">>), None, Some(<<"w">>), <<>>, << NOUN >>),
      Item(TRUE, Some(<<" ", "d">>), None, Some(<<"w", " ">>), <<>>, << NOUN >>),
      Item(TRUE, Some(<<"c">>), Some(ES), Some(<<"w">>), << BASICS >>, << NOUN >>),
      Item(FALSE, None, None, None, <<>>, <<>>),
      Item(TRUE, None, None, Some(<<"w">>), <<>>, << NOUN >>),
      Item(TRUE, Some(<<"e">>), None, None, <<>>, << NOUN >>),
      Item(TRUE, Some(<<" ">>), None, Some(<<"w">>), <<>>, << NOUN >>),
      Item(TRUE, Some(<<"e">>), None, Some(<<"w">>), <<>>, <<>>) }

ListResponse(items) == [shape |-> "list", items |-> items]

\* what the generator may answer: not a map, a map without a 'vocabulary' list, or a
\* map whose 'vocabulary' is a list of at most two elements
Responses ==
    { [shape |-> "notdict", items |-> <<>>], [shape |-> "nolist", items |-> <<>>] }
    \cup { ListResponse(<<>>) }
    \cup { ListResponse(<< a >>) : a \in ItemUniverse }
    \cup { ListResponse(<< a, b >>) : a \in ItemUniverse, b \in ItemUniverse }

NoResponse == [shape |-> "none", items |-> <<>>]

FreshItem(k) == Item(TRUE, Some(<<"f", ToString(k)>>), None, Some(<<"w">>), <<>>, << NOUN >>)

FreshItems(from, count) == [i \in 1..count |-> FreshItem(from + i)]

\* the generator of the builder: any response, or the two behaviours of the batch scenario
GeneratorResponses(mode, calls, fresh) ==
    IF mode = "any" THEN Responses
    ELSE IF mode = "fresh" \/ calls = 0 THEN { ListResponse(FreshItems(fresh, ScenarioBatch)) }
    ELSE { ListResponse(<<>>), ListResponse(FreshItems(0, ScenarioBatch)) }

\* _parse_llm_response raises unless the response is a map with a 'vocabulary' list
ParseRaises(resp) == resp.shape # "list"

\* _parse_llm_response, the loop over items
RECURSIVE ParseItems(_)
ParseItems(items) ==
    IF items = <<>> THEN <<>>
    ELSE LET item == Head(items)
             rest == ParseItems(Tail(items))
         IN  IF ~item.isMap THEN rest
             ELSE IF item.meaning_en = None \/ item.word = None THEN rest
             ELSE << [meaning_en |-> Strip(item.meaning_en[1]), language |-> item.language,
                      word |-> Strip(item.word[1]), categories |-> item.categories,
                      vocab_types |-> item.vocab_types] >> \o rest

\* item.get("language") or language
LanguageOr(item, language) == IF item.language # None THEN item.language[1] ELSE language

\* _deduplicate_items
RECURSIVE DeduplicateFrom(_, _, _)
DeduplicateFrom(items, language, seen) ==
    IF items = <<>> THEN <<>>
    ELSE LET item == Head(items)
             key == << LanguageOr(item, language), item.meaning_en, item.vocab_types >>
         IN  IF key \in seen THEN DeduplicateFrom(Tail(items), language, seen)
             ELSE << item >> \o DeduplicateFrom(Tail(items), language, seen \cup {key})

DeduplicateItems(items, language) == DeduplicateFrom(items, language, {})

RECURSIVE Join(_, _)
Join(parts, sep) ==
    IF parts = <<>> THEN <<>>
    ELSE IF Len(parts) = 1 THEN parts[1]
    ELSE parts[1] \o sep \o Join(Tail(parts), sep)

\* SingleVocabulary.__init__: f"{language}_{'_'.join(vocab_types)}_{meaning_en}"
DataId(language, vocab_types, meaning_en) ==
    language \o <<"_">> \o Join(vocab_types, <<"_">>) \o <<"_">> \o meaning_en

\* SingleVocabulary.__init__ without data_id raises ValueError
ConstructorRaises(meaning_en, language, vocab_types) ==
    meaning_en = <<>> \/ language = <<>> \/ vocab_types = <<>>

SingleVocabularyInitIdWithWord(meaning_en, language, vocab_types, word, categories, linked_items) ==
    [meaning_en |-> meaning_en, language |-> language, word |-> word,
     categories |-> categories, vocab_types |-> vocab_types, linked_items |-> linked_items,
     data_id |-> DataId(language, vocab_types, meaning_en) \o <<"_">> \o word]

\* SingleVocabulary.__init__ of a new entry (no data_id given, no file of that id yet)
SingleVocabularyInit(meaning_en, language, vocab_types, word, categories, linked_items) ==
    [meaning_en |-> meaning_en, language |-> language, word |-> word,
     categories |-> categories, vocab_types |-> vocab_types, linked_items |-> linked_items,
     data_id |-> DataId(language, vocab_types, meaning_en)]

\* the constructor as the ingestion code calls it: linked_items is left out
NewVocabulary(meaning_en, language, word, categories, vocab_types) ==
    SingleVocabularyInit(meaning_en, language, vocab_types, word, categories, <<>>)

\* ------------------------------------------------ SingleVocabulary and its file
\* the word of an entry that has no word attribute (word=None was passed, nothing restored)
NoWord == <<"None">>

\* a *.json file of the directory: body is None when the file cannot be read
File(data_id, body) == [data_id |-> data_id, body |-> body]

\* the attributes an entry object has: the two lists always (lines 59-64), the others
\* only when a value was passed or restored (lines 53-62)
AttributesOf(v) ==
    {"categories", "linked_items"}
    \cup (IF v.meaning_en # <<>> THEN {"meaning_en"} ELSE {})
    \cup (IF v.language # <<>> THEN {"language"} ELSE {})
    \cup (IF v.vocab_types # <<>> THEN {"vocab_types"} ELSE {})
    \cup (IF v.word # NoWord THEN {"word"} ELSE {})

ToJsonWithoutLinkedItems(v) ==
    [attrs |-> AttributesOf(v) \ {"linked_items"}, meaning_en |-> v.meaning_en,
     language |-> v.language, word |-> IF v.word = NoWord THEN <<>> ELSE v.word,
     categories |-> v.categories, vocab_types |-> v.vocab_types, linked_items |-> <<>>]

\* what json_cache_save writes: the attributes the object has, by name; the id is the
\* file's name
ToJson(v) ==
    [attrs |-> AttributesOf(v), meaning_en |-> v.meaning_en, language |-> v.language,
     word |-> IF v.word = NoWord THEN <<>> ELSE v.word, categories |-> v.categories,
     vocab_types |-> v.vocab_types, linked_items |-> v.linked_items]

GoodFile(v) == File(v.data_id, Some(ToJson(v)))

\* json_cache_save: the file named by the id is (over)written
JsonCacheSave(fs, v) == { f \in fs : f.data_id # v.data_id } \cup { GoodFile(v) }

\* SingleVocabulary.__init__ from super().__init__ on (lines 43-64): JSONCache restores
\* the attributes of a readable file of that id, then each attribute the object still
\* lacks is set from the argument (None is <<>>, for word NoWord); on an unreadable
\* file JSONCache raises or restores nothing: [raised, obj]
SingleVocabularyOpen(fs, mode, data_id, meaning_en, language, vocab_types, word, categories, linked_items) ==
    LET file == { f \in fs : f.data_id = data_id }
        body == IF file = {} THEN None ELSE (CHOOSE f \in file : TRUE).body
        has(a) == body # None /\ a \in body[1].attrs
    IN  [raised |-> file # {} /\ body = None /\ mode = "raises",
         obj |-> [meaning_en |-> IF has("meaning_en") THEN body[1].meaning_en ELSE meaning_en,
                  language |-> IF has("language") THEN body[1].language ELSE language,
                  word |-> IF has("word") THEN body[1].word ELSE word,
                  categories |-> IF has("categories") THEN body[1].categories ELSE categories,
                  vocab_types |-> IF has("vocab_types") THEN body[1].vocab_types
                                  ELSE vocab_types,
                  linked_items |-> IF has("linked_items") THEN body[1].linked_items
                                   ELSE linked_items,
                  data_id |-> data_id]]

\* SingleVocabulary(meaning_en, language, vocab_types, word=..., ...) in a directory
SingleVocabularyNew(fs, mode, meaning_en, language, vocab_types, word, categories, linked_items) ==
    SingleVocabularyOpen(fs, mode, DataId(language, vocab_types, meaning_en), meaning_en,
                         language, vocab_types, word, categories, linked_items)

\* SingleVocabulary(data_id=...) when JSONCache restored nothing: only the two list
\* attributes are set (lines 59-64)
HollowEntry(data_id) ==
    [meaning_en |-> <<>>, language |-> <<>>, word |-> NoWord, categories |-> <<>>,
     vocab_types |-> <<>>, linked_items |-> <<>>, data_id |-> data_id]

IsHollow(v) == v.meaning_en = <<>> /\ v.language = <<>>

\* SingleVocabulary(data_id=path.stem, directory=...)
LoadEntry(file, mode) ==
    SingleVocabularyOpen({file}, mode, file.data_id, <<>>, <<>>, <<>>, NoWord, <<>>, <<>>)

OrElse(value, default) == IF value # <<>> THEN value ELSE default

\* VocabularyBuilder._build_vocabulary_objects; raised: a constructor raised
RECURSIVE BuildVocabularyObjects(_, _, _, _)
BuildVocabularyObjects(items, default_language, categories, vocab_types) ==
    IF items = <<>> THEN [raised |-> FALSE, objs |-> <<>>]
    ELSE LET item == Head(items)
             language == LanguageOr(item, default_language)
             item_categories == OrElse(item.categories, categories)
             item_vocab_types == OrElse(item.vocab_types, vocab_types)
         IN  IF ConstructorRaises(item.meaning_en, language, item_vocab_types)
             THEN [raised |-> TRUE, objs |-> <<>>]
             ELSE LET rest == BuildVocabularyObjects(Tail(items), default_language,
                                                     categories, vocab_types)
                  IN  [raised |-> rest.raised,
                       objs |-> << NewVocabulary(item.meaning_en, language, item.word,
                                                 item_categories, item_vocab_types) >>
                                \o rest.objs]

\* VocabularyTranslator._build_vocabulary_objects: no fallback for categories and types
TranslatorBuildObjects(items, default_language) ==
    BuildVocabularyObjects(items, default_language, <<>>, <<>>)

VocabKey(v) == << v.language, v.meaning_en, v.vocab_types >>

\* the loop over batch_vocabs_all: [new |-> new_vocabs, seen |-> seen afterwards]
RECURSIVE FilterNew(_, _)
FilterNew(objs, seen) ==
    IF objs = <<>> THEN [new |-> <<>>, seen |-> seen]
    ELSE LET v == Head(objs)
         IN  IF VocabKey(v) \in seen THEN FilterNew(Tail(objs), seen)
             ELSE LET rest == FilterNew(Tail(objs), seen \cup {VocabKey(v)})
                  IN  [new |-> << v >> \o rest.new, seen |-> rest.seen]

TakeAll(results, n) == results

\* results[:n] for n >= 0
Take(results, n) == SubSeq(results, 1, Min(n, Len(results)))

KeysOf(vocabs) == { VocabKey(vocabs[i]) : i \in 1..Len(vocabs) }

\* ------------------------------------------------ VocabularyBuilder.generate
BuilderLanguage == FR

\* generate, lines 86-87: the loop ends when the batch brought nothing new
NeverBreaks(new_vocabs) == FALSE

BreaksOnNothingNew(new_vocabs) == new_vocabs = <<>>

\* generate, lines 42-52: up to the first test of the loop
GenerateEnter ==
    /\ prog = "gen" /\ gPc = "idle"
    /\ gSeen' = KeysOf(gExisting)
    /\ gResults' = <<>>
    /\ gRemaining' = gN
    /\ IF gN > 0
       THEN gPc' = "loop" /\ gReturned' = gReturned
       ELSE gPc' = "done" /\ gReturned' = <<>>
    /\ UNCHANGED << prog, auxVars, optionTaken, ledgerVars, unitVars, lastResp, transVars, sentVars,
                    gMode, gN, gBatch, gExisting, gCalls, gFresh >>

\* generate, lines 52-92: one pass of the loop around one generator call
GenerateBatch(resp) ==
    /\ prog = "gen" /\ gPc = "loop"
    /\ gCalls' = gCalls + 1
    /\ gFresh' = IF gMode = "any" THEN gFresh ELSE gFresh + ScenarioBatch
    /\ lastResp' = resp
    /\ IF ParseRaises(resp)
       THEN /\ gPc' = "raised"
            /\ UNCHANGED << gSeen, gResults, gRemaining, gReturned >>
       ELSE LET raw_items == DeduplicateItems(ParseItems(resp.items), BuilderLanguage)
                built == BuildVocabularyObjects(raw_items, BuilderLanguage,
                                                << BASICS >>, << NOUN >>)
                filtered == FilterNew(built.objs, gSeen)
            IN  IF built.raised
                THEN /\ gPc' = "raised"
                     /\ UNCHANGED << gSeen, gResults, gRemaining, gReturned >>
                ELSE IF BreaksOnNothingNew(filtered.new)
                THEN /\ gPc' = "done"
                     /\ gSeen' = filtered.seen
                     /\ gReturned' = Take(gResults, gN)
                     /\ UNCHANGED << gResults, gRemaining >>
                ELSE /\ gSeen' = filtered.seen
                     /\ gResults' = gResults \o filtered.new
                     /\ gRemaining' = gN - Len(gResults')
                     /\ IF gRemaining' > 0
                        THEN gPc' = "loop" /\ gReturned' = gReturned
                        ELSE gPc' = "done" /\ gReturned' = Take(gResults', gN)
    /\ UNCHANGED << prog, auxVars, optionTaken, ledgerVars, unitVars, transVars, sentVars,
                    gMode, gN, gBatch, gExisting >>

GenerateStep == \E resp \in GeneratorResponses(gMode, gCalls, gFresh) : GenerateBatch(resp)

NextGen ==
    \/ GenerateEnter
    \/ GenerateStep

\* ------------------------------------------ VocabularyTranslator.translate_batch
SourceUniverse ==
    << NewVocabulary(<<"d">>, FR, <<"chien">>, << BASICS >>, << NOUN >>),
       NewVocabulary(<<"c">>, FR, <<"chat">>, << BASICS >>, << NOUN >>),
       NewVocabulary(<<"e">>, FR, <<"eau">>, << BASICS >>, << NOUN >>) >>

StaysOnBatch(idx, batch_size) == idx

\* translate_batch, line 49: idx += batch_size, before the generator is called
AdvanceIdx(idx, batch_size) == idx + batch_size

\* translate_batch, lines 39-48: up to the first test of the loop
TranslateEnter ==
    /\ prog = "trans" /\ tPc = "idle"
    /\ tResults' = <<>>
    /\ tSeen' = {}
    /\ tIdx' = 0
    /\ tPc' = IF tSources = <<>> THEN "done" ELSE "loop"
    /\ UNCHANGED << prog, auxVars, optionTaken, ledgerVars, unitVars, lastResp, genVars, sentVars,
                    tSources, tBatch, tCalls >>

\* translate_batch, lines 48-79: one pass of the loop around one generator call
TranslateBatch(resp) ==
    /\ prog = "trans" /\ tPc = "loop"
    /\ LET batch == SubSeq(tSources, tIdx + 1, Min(tIdx + tBatch, Len(tSources)))
       IN  /\ tIdx' = AdvanceIdx(tIdx, tBatch)
           /\ tCalls' = Append(tCalls, batch)
           /\ lastResp' = resp
           /\ IF ParseRaises(resp)
              THEN tPc' = "raised" /\ UNCHANGED << tSeen, tResults >>
              ELSE LET raw_items == DeduplicateItems(ParseItems(resp.items), TargetLanguage)
                       built == TranslatorBuildObjects(raw_items, TargetLanguage)
                       filtered == FilterNew(built.objs, tSeen)
                   IN  IF built.raised
                       THEN tPc' = "raised" /\ UNCHANGED << tSeen, tResults >>
                       ELSE /\ tSeen' = filtered.seen
                            /\ tResults' = IF filtered.new = <<>> /\ batch # <<>>
                                           THEN tResults
                                           ELSE tResults \o filtered.new
                            /\ tPc' = IF tIdx' < Len(tSources) THEN "loop" ELSE "done"
    /\ UNCHANGED << prog, auxVars, optionTaken, ledgerVars, unitVars, genVars, sentVars, tSources, tBatch >>

NextTrans ==
    \/ TranslateEnter
    \/ \E resp \in Responses : TranslateBatch(resp)

\* ------------------------------------------------- SentenceBuilder.generate
ExampleSentence == <<"example_sentence">>

Contains(seq, x) == \E i \in 1..Len(seq) : seq[i] = x

HasEdge(linked_items, data_id, relation) ==
    \E i \in 1..Len(linked_items) :
        linked_items[i].data_id = data_id /\ linked_items[i].relation = relation

AppendEdge(linked_items, data_id, relation) ==
    Append(linked_items, [data_id |-> data_id, relation |-> relation])

\* the edge insert of _build_sentence_objects: append unless the edge is there
AddEdge(linked_items, data_id, relation) ==
    IF HasEdge(linked_items, data_id, relation) THEN linked_items
    ELSE Append(linked_items, [data_id |-> data_id, relation |-> relation])

\* _build_sentence_objects in the directory fs: [raised, base (the base entry
\* afterwards), objs]
RECURSIVE BuildSentenceObjects(_, _, _, _, _)
BuildSentenceObjects(items, base, objs, fs, mode) ==
    IF items = <<>> THEN [raised |-> FALSE, base |-> base, objs |-> objs]
    ELSE LET item == Head(items)
             language == LanguageOr(item, base.language)
             cats0 == OrElse(item.categories, base.categories)
             item_categories == IF Contains(cats0, ExampleSentence) THEN cats0
                                ELSE Append(cats0, ExampleSentence)
             item_vocab_types == OrElse(item.vocab_types, << PHRASE >>)
         IN  IF ConstructorRaises(item.meaning_en, language, item_vocab_types)
             THEN [raised |-> TRUE, base |-> base, objs |-> objs]
             ELSE LET made == SingleVocabularyNew(fs, mode, item.meaning_en, language,
                                                  item_vocab_types, item.word,
                                                  item_categories, <<>>)
                      sv == made.obj
                      base2 == [base EXCEPT !.linked_items =
                                    AddEdge(base.linked_items, sv.data_id, "example_sentence")]
                      sv2 == [sv EXCEPT !.linked_items =
                                    AddEdge(sv.linked_items, base.data_id, "example_for")]
                  IN  IF made.raised THEN [raised |-> TRUE, base |-> base, objs |-> objs]
                      ELSE BuildSentenceObjects(Tail(items), base2, Append(objs, sv2),
                                                fs, mode)

\* SentenceBuilder.generate: one call
SentenceGenerate(resp) ==
    /\ prog = "sent" /\ bPc \in {"idle", "done"} /\ bRuns < MaxSentRuns
    /\ bRuns' = bRuns + 1
    /\ lastResp' = resp
    /\ IF ParseRaises(resp)
       THEN bPc' = "raised" /\ UNCHANGED << bBase, bResults >>
       ELSE LET built == BuildSentenceObjects(ParseItems(resp.items), bBase, <<>>,
                                              files, cacheMode)
            IN  /\ bBase' = built.base
                /\ bResults' = built.objs
                /\ bPc' = IF built.raised THEN "raised" ELSE "done"
    /\ UNCHANGED << prog, auxVars, optionTaken, ledgerVars, unitVars, genVars, transVars >>

NextSent == \E resp \in Responses : SentenceGenerate(resp)

\* ========================================================== VocabularyStore
MaxStore == 3

NOUN_PHRASE == <<"n", "_", "p">>

\* entries handed to add / extend; the first four triples differ and render the same id
StoreEntries ==
    { SingleVocabularyInit(<<"x">>, FR, << NOUN, PHRASE >>, <<"w">>, <<>>, <<>>),
      SingleVocabularyInit(<<"x">>, FR, << NOUN, PHRASE >>, <<"v">>, << BASICS >>,
                           << [data_id |-> <<"s">>, relation |-> "example_sentence"] >>),
      SingleVocabularyInit(<<"p", "_", "x">>, FR, << NOUN >>, <<"w">>, <<>>, <<>>),
      SingleVocabularyInit(<<"x">>, FR, << NOUN_PHRASE >>, <<"w">>, <<>>, <<>>),
      SingleVocabularyInit(<<"x">>, DE, << NOUN >>, <<"w">>, <<>>, <<>>) }

\* the directories a store may be opened on: per id no file, a readable or a corrupt one
InitialFiles ==
    LET a == SingleVocabularyInit(<<"x">>, FR, << NOUN, PHRASE >>, <<"w">>, <<>>, <<>>)
        b == SingleVocabularyInit(<<"x">>, DE, << NOUN >>, <<"w">>, <<>>, <<>>)
    IN  { fa \cup fb : fa \in { {}, {GoodFile(a)}, {File(a.data_id, None)} },
                       fb \in { {}, {GoodFile(b)}, {File(b.data_id, None)} } }

\* the orders in which glob("*.json") may list the directory
GlobOrders(fs) ==
    { o \in [1..Cardinality(fs) -> fs] : \A i, j \in 1..Cardinality(fs) : i # j => o[i] # o[j] }

\* VocabularyStore.load, the loop: [raised, vocabs]
RECURSIVE LoadFrom(_, _, _)
LoadFrom(paths, mode, vocabs) ==
    IF paths = <<>> THEN [raised |-> FALSE, vocabs |-> vocabs]
    ELSE LET r == LoadEntry(Head(paths), mode)
         IN  IF r.raised THEN [raised |-> TRUE, vocabs |-> vocabs]
             ELSE LoadFrom(Tail(paths), mode, Append(vocabs, r.obj))

\* VocabularyStore.extend: add each entry in turn: [vocabs, files]
RECURSIVE ExtendFrom(_, _, _, _)
ExtendFrom(vocabs, fs, new, save) ==
    IF new = <<>> THEN [vocabs |-> vocabs, files |-> fs]
    ELSE ExtendFrom(Append(vocabs, Head(new)),
                    IF save THEN JsonCacheSave(fs, Head(new)) ELSE fs,
                    Tail(new), save)

\* VocabularyStore.load
StoreLoad ==
    /\ prog = "store"
    /\ \E paths \in GlobOrders(files) :
          LET r == LoadFrom(paths, cacheMode, <<>>)
          IN  /\ stVocabs' = r.vocabs
              /\ stPc' = IF r.raised THEN "raised" ELSE "ready"
    /\ stLast' = "load"
    /\ UNCHANGED << prog, weightVars, entryVars, cardVars, optionTaken, ledgerVars, unitVars, ingestVars,
                    cacheMode, files >>

\* VocabularyStore.add
StoreAdd(vocab, save) ==
    /\ prog = "store" /\ stPc = "ready" /\ Len(stVocabs) < MaxStore
    /\ stVocabs' = Append(stVocabs, vocab)
    /\ files' = IF save THEN JsonCacheSave(files, vocab) ELSE files
    /\ stLast' = IF save THEN "add_saved" ELSE "add"
    /\ UNCHANGED << prog, weightVars, entryVars, cardVars, optionTaken, ledgerVars, unitVars, ingestVars,
                    cacheMode, stPc >>

\* VocabularyStore.extend
StoreExtend(vocabs, save) ==
    /\ prog = "store" /\ stPc = "ready" /\ Len(stVocabs) + Len(vocabs) <= MaxStore
    /\ LET r == ExtendFrom(stVocabs, files, vocabs, save)
       IN  stVocabs' = r.vocabs /\ files' = r.files
    /\ stLast' = "extend"
    /\ UNCHANGED << prog, weightVars, entryVars, cardVars, optionTaken, ledgerVars, unitVars, ingestVars,
                    cacheMode, stPc >>

\* VocabularyStore.save_all
StoreSaveAll ==
    /\ prog = "store" /\ stPc = "ready"
    /\ files' = ExtendFrom(<<>>, files, stVocabs, TRUE).files
    /\ stLast' = "save_all"
    /\ UNCHANGED << prog, weightVars, entryVars, cardVars, optionTaken, ledgerVars, unitVars, ingestVars,
                    cacheMode, stVocabs, stPc >>

NextStore ==
    \/ StoreLoad
    \/ \E v \in StoreEntries, save \in BOOLEAN : StoreAdd(v, save)
    \/ \E a \in StoreEntries, b \in StoreEntries, save \in BOOLEAN : StoreExtend(<< a, b >>, save)
    \/ StoreSaveAll

\* ============================================================== Performance
\* Performance(performance_tab, source, translation, direction) read through its three
\* methods; performance_tab is None or Some(tab)
Aggregate(performance_tab, source, translation, direction) ==
    IF performance_tab = None
    THEN [overall_rating |-> 0, num_ratings |-> 0, last_check |-> NoDate]
    ELSE [overall_rating |-> OverallRating(performance_tab[1], source, translation, direction),
          num_ratings |-> NumRatings(performance_tab[1], source, translation, direction),
          last_check |-> LastCheck(performance_tab[1], source, translation, direction)]

\* ==================================================== compute_vocab_weights
NeutralAvg == 50

\* a float that is a number a/d (d > 0), or NaN
Number(a, d) == [nan |-> FALSE, a |-> a, d |-> d]

NaN == [nan |-> TRUE, a |-> 0, d |-> 1]

\* overall / num.replace(0, np.nan)
Average(overall, num) == IF num = 0 THEN NaN ELSE Number(overall, num)

FillNaWithZero(avg, neutral_avg) == IF avg.nan THEN Number(0, 1) ELSE avg

\* avg.fillna(neutral_avg)
FillNa(avg, neutral_avg) == IF avg.nan THEN Number(neutral_avg, 1) ELSE avg

KEffOne(num) == 1

\* k_eff = num.copy(); k_eff[k_eff == 0] = 1
KEff(num) == IF num = 0 THEN 1 ELSE num

\* 2.0 ** ((k_eff * (50.0 - avg)) / 50.0), kept as its exponent expNum / expDen
Weight(overall, num, neutral_avg) ==
    LET avg == FillNa(Average(overall, num), neutral_avg)
    IN  [expNum |-> KEff(num) * (50 * avg.d - avg.a), expDen |-> 50 * avg.d]

\* 2.0 ** x = 1.0 exactly when x = 0.0
WeightIsOne(w) == w.expNum = 0

\* compute_vocab_weights(df, neutral_avg)
ComputeVocabWeights(df, neutral_avg) ==
    [i \in 1..Len(df) |-> Weight(df[i].overallRating, df[i].numRatings, neutral_avg)]

\* the "overall rating" / "num ratings" columns a candidate table may hold
WeightRows ==
    { [overallRating |-> o, numRatings |-> k] : o \in {0 - 1, 0, 40, 50, 80, 90, 100, 200}, k \in {0, 1, 2, 4} }

WeightTables == { << r >> : r \in WeightRows } \cup { << r, q >> : r \in WeightRows, q \in WeightRows }

\* the neutral_avg values a caller of sample_vocab passes: the default and another one
NeutralValues == {NeutralAvg, 40}

\* sample_vocab, line 65
CallComputeVocabWeights ==
    /\ prog = "weights" /\ wWeights = None
    /\ wWeights' = Some(ComputeVocabWeights(wTable, wNeutral))
    /\ UNCHANGED << prog, storeVars, entryVars, cardVars, optionTaken, ledgerVars, unitVars, ingestVars, wTable,
                    wNeutral >>

NextWeights == CallComputeVocabWeights

\* ================================================= one entry in its directory
\* the ids of the entry, of a sentence that is persisted and of one that may not be
EntryId == DataId(FR, << PHRASE >>, <<"e">>)

SentenceOneId == DataId(FR, << PHRASE >>, <<"s">>)

SentenceTwoId == DataId(FR, << PHRASE >>, <<"t">>)

Edge(data_id, relation) == [data_id |-> data_id, relation |-> relation]

\* linked_items with a repeated target, another relation, an edge without a target id
\* and a target whose file may be missing or unreadable
EntryLinks ==
    << Edge(SentenceTwoId, "example_sentence"), Edge(SentenceOneId, "example_for"),
       Edge(<<>>, "example_sentence"), Edge(SentenceOneId, "example_sentence"),
       Edge(SentenceTwoId, "example_sentence"), Edge(SentenceOneId, "example_sentence") >>

ConstructorArgs(meaning_en, word, categories, linked_items) ==
    [meaning_en |-> meaning_en, language |-> FR, vocab_types |-> << PHRASE >>,
     word |-> word, categories |-> categories, linked_items |-> linked_items]

\* the constructor calls made: with links, with another word, without a word, and
\* without a meaning
EntryArgs ==
    { ConstructorArgs(<<"e">>, <<"w">>, << BASICS >>, EntryLinks),
      ConstructorArgs(<<"e">>, <<"v">>, <<>>, <<>>),
      ConstructorArgs(<<"e">>, NoWord, <<>>, <<>>),
      ConstructorArgs(<<>>, <<"w">>, <<>>, <<>>) }

\* the directories: the entry's file is missing, readable with a word, readable without
\* one, or unreadable; the first sentence is readable; the second is missing, readable
\* or unreadable
EntryDirs ==
    LET withWord == SingleVocabularyInit(<<"e">>, FR, << PHRASE >>, <<"p">>, << BASICS >>,
                                         << Edge(SentenceOneId, "example_sentence") >>)
        wordless == SingleVocabularyInit(<<"e">>, FR, << PHRASE >>, NoWord, << BASICS >>,
                                         <<>>)
        one == SingleVocabularyInit(<<"s">>, FR, << PHRASE >>, <<"u">>,
                                    << ExampleSentence >>, << Edge(EntryId, "example_for") >>)
        two == SingleVocabularyInit(<<"t">>, FR, << PHRASE >>, <<"u">>,
                                    << ExampleSentence >>, << Edge(EntryId, "example_for") >>)
    IN  { fe \cup {GoodFile(one)} \cup ft :
            fe \in { {}, {GoodFile(withWord)}, {GoodFile(wordless)}, {File(EntryId, None)} },
            ft \in { {}, {GoodFile(two)}, {File(SentenceTwoId, None)} } }

\* load_linked_sentences, line 82: data_id in seen
InSeen(data_id, seen) == data_id \in seen

\* load_linked_sentences, the loop (lines 79-93)
RECURSIVE LoadLinkedFrom(_, _, _, _, _)
LoadLinkedFrom(links, fs, mode, seen, sentences) ==
    IF links = <<>> THEN sentences
    ELSE LET link == Head(links)
         IN  IF link.relation # "example_sentence"
             THEN LoadLinkedFrom(Tail(links), fs, mode, seen, sentences)
             ELSE IF link.data_id = <<>> \/ InSeen(link.data_id, seen)
             THEN LoadLinkedFrom(Tail(links), fs, mode, seen, sentences)
             ELSE LET r == SingleVocabularyOpen(fs, mode, link.data_id, <<>>, <<>>, <<>>,
                                                NoWord, <<>>, <<>>)
                  IN  LoadLinkedFrom(Tail(links), fs, mode, seen \cup {link.data_id},
                                     IF r.raised THEN sentences
                                     ELSE Append(sentences, r.obj))

\* SingleVocabulary(meaning_en, language, vocab_types, word=..., categories=...,
\* linked_items=...) in the directory
EntryConstruct(args) ==
    /\ prog = "entry"
    /\ LET r == SingleVocabularyNew(files, cacheMode, args.meaning_en, args.language,
                                    args.vocab_types, args.word, args.categories,
                                    args.linked_items)
       IN  eObj' = IF ConstructorRaises(args.meaning_en, args.language, args.vocab_types)
                      \/ r.raised
                   THEN None ELSE Some(r.obj)
    /\ eArgs' = Some(args)
    /\ eLinked' = None
    /\ eLast' = "construct"
    /\ UNCHANGED << prog, storeVars, weightVars, cardVars, optionTaken, ledgerVars,
                    unitVars, ingestVars >>

\* SingleVocabulary(data_id=..., directory=...)
EntryLoad(data_id) ==
    /\ prog = "entry"
    /\ LET r == SingleVocabularyOpen(files, cacheMode, data_id, <<>>, <<>>, <<>>, NoWord,
                                     <<>>, <<>>)
       IN  eObj' = IF r.raised THEN None ELSE Some(r.obj)
    /\ eArgs' = None
    /\ eLinked' = None
    /\ eLast' = "load"
    /\ UNCHANGED << prog, storeVars, weightVars, cardVars, optionTaken, ledgerVars,
                    unitVars, ingestVars >>

\* json_cache_save() on the object
EntrySave ==
    /\ prog = "entry" /\ eObj # None
    /\ files' = JsonCacheSave(files, eObj[1])
    /\ eLast' = "save"
    /\ UNCHANGED << prog, weightVars, cardVars, optionTaken, ledgerVars, unitVars,
                    ingestVars, cacheMode, stVocabs, stPc, stLast, eObj, eArgs, eLinked >>

\* load_linked_sentences() on the object
EntryLoadLinkedSentences ==
    /\ prog = "entry" /\ eObj # None
    /\ eLinked' = Some(LoadLinkedFrom(eObj[1].linked_items, files, cacheMode, {}, <<>>))
    /\ eLast' = "load_linked_sentences"
    /\ UNCHANGED << prog, storeVars, weightVars, cardVars, optionTaken, ledgerVars,
                    unitVars, ingestVars, eObj, eArgs >>

NextEntry ==
    \/ \E args \in EntryArgs : EntryConstruct(args)
    \/ \E data_id \in {EntryId, SentenceOneId, SentenceTwoId} : EntryLoad(data_id)
    \/ EntrySave
    \/ EntryLoadLinkedSentences

\* ================================================ VocabLearningUnit.__init__
RangeOf(seq) == { seq[i] : i \in 1..Len(seq) }

SameTypesAsSets(source_types, target_types) == RangeOf(source_types) = RangeOf(target_types)

\* line 31: tuple(source_vocab.vocab_types or []) == tuple(target_vocab.vocab_types or [])
SameTypes(source_types, target_types) == source_types = target_types

\* VocabLearningUnit.__init__, lines 29-43: the exception raised, or "ok"
UnitInit(source_vocab, target_vocab, has_key) ==
    IF source_vocab.meaning_en # target_vocab.meaning_en THEN "ValueError: meaning_en"
    ELSE IF ~SameTypes(source_vocab.vocab_types, target_vocab.vocab_types)
    THEN "ValueError: vocab_types"
    ELSE IF ~has_key THEN "RuntimeError"
    ELSE "ok"

\* the entries a unit is constructed from
CardEntries ==
    { NewVocabulary(<<"c">>, FR, <<"chat">>, << BASICS >>, << NOUN >>),
      NewVocabulary(<<"c">>, DE, <<"Katze">>, <<>>, << NOUN >>),
      NewVocabulary(<<"d">>, DE, <<"Hund">>, << BASICS >>, << NOUN >>),
      NewVocabulary(<<"c">>, FR, <<"w">>, << BASICS >>, << NOUN, PHRASE >>),
      NewVocabulary(<<"c">>, DE, <<"w">>, << BASICS >>, << NOUN, PHRASE >>),
      NewVocabulary(<<"c">>, DE, <<"w">>, << BASICS >>, << PHRASE, NOUN >>) }

\* VocabLearningUnit(source_vocab, target_vocab, api_key=...)
MakeUnit ==
    /\ prog = "card" /\ cUnit = "none"
    /\ cUnit' = UnitInit(cSource, cTarget, cApiKey)
    /\ UNCHANGED << prog, storeVars, weightVars, entryVars, optionTaken, ledgerVars,
                    unitVars, ingestVars, cSource, cTarget, cApiKey >>

NextMakeUnit == MakeUnit

\* ==================================================================== Init
GenIdle ==
    /\ gMode = "any" /\ gN = 0 /\ gBatch = 1 /\ gExisting = <<>> /\ gSeen = {}
    /\ gResults = <<>> /\ gRemaining = 0 /\ gCalls = 0 /\ gFresh = 0 /\ gPc = "idle"
    /\ gReturned = <<>>

TransIdle ==
    /\ tSources = <<>> /\ tBatch = 1 /\ tIdx = 0 /\ tSeen = {} /\ tResults = <<>>
    /\ tCalls = <<>> /\ tPc = "idle"

SentIdle ==
    /\ bBase = NewVocabulary(<<"d">>, FR, <<"chien">>, << BASICS >>, << NOUN >>)
    /\ bResults = <<>> /\ bRuns = 0 /\ bPc = "idle"

\* the directory the sentences are built in, for the id of a generated phrase: no
\* file, a phrase saved by another route, or the sentence as an earlier run linked it
SentenceDirs ==
    LET base == NewVocabulary(<<"d">>, FR, <<"chien">>, << BASICS >>, << NOUN >>)
    IN  { {},
          { GoodFile(SingleVocabularyInit(<<"e">>, FR, << PHRASE >>, <<"v">>, << BASICS >>,
                                          <<>>)) },
          { GoodFile(SingleVocabularyInit(<<"e">>, FR, << PHRASE >>, <<"w">>,
                         << ExampleSentence >>,
                         << [data_id |-> base.data_id, relation |-> "example_for"] >>)) } }

IngestIdle == lastResp = NoResponse /\ GenIdle /\ TransIdle /\ SentIdle

UnitIdle ==
    /\ store = <<>> /\ uN = 0 /\ uTypes = <<>> /\ uCats = <<>> /\ uPc = "idle"
    /\ uPool = <<>> /\ uCards = <<>> /\ uIdx = 0 /\ uAnswer = <<>> /\ uResults = <<>>

StoreIdle ==
    /\ cacheMode = "raises" /\ files = {} /\ stVocabs = <<>> /\ stPc = "ready"
    /\ stLast = "none"

WeightsIdle == wTable = <<>> /\ wNeutral = NeutralAvg /\ wWeights = None

EntryIdle == eObj = None /\ eArgs = None /\ eLinked = None /\ eLast = "none"

CardIdle ==
    /\ cSource = NewVocabulary(<<"c">>, FR, <<"chat">>, << BASICS >>, << NOUN >>)
    /\ cTarget = NewVocabulary(<<"c">>, DE, <<"Katze">>, <<>>, << NOUN >>)
    /\ cApiKey = TRUE /\ cUnit = "none"

AuxIdle == StoreIdle /\ WeightsIdle /\ EntryIdle /\ CardIdle

LedgerOff ==
    /\ updateMode = "first" /\ sheetVocab = <<>> /\ sheetPerf = <<>>
    /\ vocabData = <<>> /\ perfData = <<>>
    /\ LedgerIdle

InitLedger ==
    /\ prog = "ledger"
    /\ AuxIdle
    /\ updateMode \in {"first", "all"}
    /\ sheetVocab \in InitialTables
    /\ sheetPerf = <<>>
    /\ vocabData = sheetVocab
    /\ perfData = <<>>
    /\ LedgerIdle
    /\ UnitIdle
    /\ IngestIdle

InitUnit ==
    /\ prog = "unit"
    /\ AuxIdle
    /\ LedgerOff
    /\ IngestIdle
    /\ store \in InitialStores
    /\ uN \in 0..MaxN
    /\ uTypes \in { <<>>, << NOUN >> }
    /\ uCats \in { <<>>, << BASICS >> }
    /\ uPc = "idle" /\ uPool = <<>> /\ uCards = <<>> /\ uIdx = 0
    /\ uAnswer = <<>> /\ uResults = <<>>

InitGen ==
    /\ prog = "gen"
    /\ AuxIdle
    /\ LedgerOff /\ UnitIdle
    /\ lastResp = NoResponse /\ TransIdle /\ SentIdle
    /\ gMode \in {"any", "fresh", "freshThenNone"}
    /\ IF gMode = "any"
       THEN /\ gN \in 0..MaxGenN
            /\ gBatch \in 1..MaxBatch
            /\ gExisting \in { <<>>, << SourceUniverse[1] >> }
       ELSE gN = ScenarioN /\ gBatch = ScenarioBatch /\ gExisting = <<>>
    /\ gSeen = {} /\ gResults = <<>> /\ gRemaining = 0 /\ gCalls = 0 /\ gFresh = 0
    /\ gPc = "idle" /\ gReturned = <<>>

InitTrans ==
    /\ prog = "trans"
    /\ AuxIdle
    /\ LedgerOff /\ UnitIdle
    /\ lastResp = NoResponse /\ GenIdle /\ SentIdle
    /\ tSources \in { SubSeq(SourceUniverse, 1, k) : k \in 0..Len(SourceUniverse) }
    /\ tBatch \in 1..MaxBatch
    /\ tIdx = 0 /\ tSeen = {} /\ tResults = <<>> /\ tCalls = <<>> /\ tPc = "idle"

InitSent ==
    /\ prog = "sent"
    /\ WeightsIdle /\ EntryIdle /\ CardIdle
    /\ cacheMode = "raises" /\ files \in SentenceDirs
    /\ stVocabs = <<>> /\ stPc = "ready" /\ stLast = "none"
    /\ LedgerOff /\ UnitIdle
    /\ lastResp = NoResponse /\ GenIdle /\ TransIdle
    /\ SentIdle

InitStore ==
    /\ prog = "store"
    /\ LedgerOff /\ UnitIdle /\ IngestIdle /\ WeightsIdle /\ EntryIdle /\ CardIdle
    /\ cacheMode \in {"raises", "hollow"}
    /\ files \in InitialFiles
    /\ stVocabs = <<>> /\ stPc = "ready" /\ stLast = "none"

InitWeights ==
    /\ prog = "weights"
    /\ LedgerOff /\ UnitIdle /\ IngestIdle /\ StoreIdle /\ EntryIdle /\ CardIdle
    /\ wTable \in WeightTables
    /\ wNeutral \in NeutralValues
    /\ wWeights = None

InitEntry ==
    /\ prog = "entry"
    /\ LedgerOff /\ UnitIdle /\ IngestIdle /\ WeightsIdle /\ CardIdle /\ EntryIdle
    /\ cacheMode \in {"raises", "hollow"}
    /\ files \in EntryDirs
    /\ stVocabs = <<>> /\ stPc = "ready" /\ stLast = "none"

InitCard ==
    /\ prog = "card"
    /\ LedgerOff /\ UnitIdle /\ IngestIdle /\ StoreIdle /\ WeightsIdle /\ EntryIdle
    /\ cSource \in CardEntries /\ cTarget \in CardEntries
    /\ cApiKey \in BOOLEAN
    /\ cUnit = "none"

Init == InitLedger \/ InitUnit \/ InitGen \/ InitTrans \/ InitSent \/ InitStore \/ InitWeights
        \/ InitEntry \/ InitCard

Next == NextLedger \/ NextUnit \/ NextGen \/ NextTrans \/ NextSent \/ NextStore \/ NextWeights
        \/ NextEntry \/ NextMakeUnit

Spec == Init /\ [][Next]_vars

\* ============================================================== properties

\* --- helpers of the properties (computed independently of the model's operators)
IsBlank(text) == \A i \in 1..Len(text) : text[i] = " "

NoRepeats(seq) == \A i, j \in 1..Len(seq) : i # j => seq[i] # seq[j]

IsPrefix(a, b) == Len(a) <= Len(b) /\ \A i \in 1..Len(a) : a[i] = b[i]

\* the ledger's records of a (source, translation) pair
PairRecords(ledger, source, translation) ==
    { i \in 1..Len(ledger) : ledger[i].source = source /\ ledger[i].translation = translation }

RECURSIVE RatingSum(_, _)
RatingSum(ledger, idx) ==
    IF idx = {} THEN 0
    ELSE LET i == CHOOSE x \in idx : TRUE
         IN  ledger[i].rating + RatingSum(ledger, idx \ {i})

LatestDate(ledger, idx) ==
    IF idx = {} THEN 0
    ELSE LET i == CHOOSE x \in idx : \A y \in idx : ledger[y].date <= ledger[x].date
         IN  ledger[i].date

SelectionDone == prog = "ledger" /\ sessions > 0

\* C1: a selection of n cards from a pool of fewer than n candidates fails with an
\* error and returns no cards, on the sample_vocab path and on the _select_cards path.
C1_OversizeRejected ==
    /\ (SelectionDone /\ numWords > Cardinality(poolRows))
          => (lastOutcome = "ValueError" /\ vocabList = <<>>)
    /\ (prog = "unit" /\ uPc # "idle" /\ uN > Len(uPool))
          => (uPc = "failed" /\ uCards = <<>>)

\* C1, witness: the sample_vocab path has rejected an oversize request
C1_Witness ==
    SelectionDone /\ numWords > Cardinality(poolRows) /\ lastOutcome = "ValueError"

\* C2: a selection holds no card twice, at most n cards, at most as many cards as the
\* pool has, and only cards of the pool.
C2_SelectionSound ==
    /\ SelectionDone =>
          /\ NoRepeats(vocabList)
          /\ Len(vocabList) <= numWords
          /\ Len(vocabList) <= Cardinality(poolRows)
          /\ \A i \in 1..Len(vocabList) : vocabList[i] \in poolRows
    /\ (prog = "unit" /\ uPc # "idle") =>
          /\ NoRepeats(uCards)
          /\ Len(uCards) <= uN
          /\ Len(uCards) <= Len(uPool)
          /\ \A i \in 1..Len(uCards) : \E j \in 1..Len(uPool) : uCards[i] = uPool[j]

\* C2, witness: two cards were drawn from a pool of two, in the order opposite to the table's
C2_Witness ==
    /\ SelectionDone /\ Cardinality(poolRows) = 2 /\ Len(vocabList) = 2
    /\ vocabList[1] > vocabList[2]

\* C3: generate makes at most n generator calls, every pass of the loop that does not end
\* it adds an entry, and the two batch scenarios end after 2 calls with 20 and 10 results.
C3_GenerateTerminates ==
    prog = "gen" =>
       /\ gCalls <= gN
       /\ gPc = "loop" => (Len(gResults) >= gCalls /\ Len(gResults) < gN)
       /\ (gMode = "fresh" /\ gPc \notin {"idle", "loop"})
             => (gPc = "done" /\ gCalls = 2 /\ Len(gReturned) = 20)
       /\ (gMode = "freshThenNone" /\ gPc \notin {"idle", "loop"})
             => (gPc = "done" /\ gCalls = 2 /\ Len(gReturned) = 10)

\* C3, witness: the scenario of a generator that runs dry has ended
C3_Witness ==
    prog = "gen" /\ gMode = "freshThenNone" /\ gPc = "done" /\ Len(gReturned) = 10

\* an element of a response that has a usable meaning_en, word and vocab_types
UsableItem(item) ==
    /\ item.isMap /\ item.word # None /\ item.vocab_types # <<>>
    /\ item.meaning_en # None /\ ~IsBlank(item.meaning_en[1])

\* C4: a response that is a map with a 'vocabulary' list never makes generate,
\* translate_batch or SentenceBuilder.generate raise, and its usable elements become
\* entries whatever the other elements are.
C4_PerItemErrorsAbsorbed ==
    lastResp.shape = "list" =>
       /\ gPc # "raised" /\ tPc # "raised" /\ bPc # "raised"
       /\ \A i \in 1..Len(lastResp.items) :
             LET item == lastResp.items[i]
             IN  UsableItem(item) =>
                   /\ prog = "gen" =>
                        \E k \in gSeen : k[2] = Strip(item.meaning_en[1])
                   /\ prog = "trans" =>
                        \E k \in tSeen : k[2] = Strip(item.meaning_en[1])
                   /\ prog = "sent" =>
                        \E j \in 1..Len(bResults) :
                            bResults[j].meaning_en = Strip(item.meaning_en[1])

\* C5: when the evaluator fails on a card, the session goes on with the later cards and
\* returns the results of the cards that completed.
C5_EvalFailureAbortsOnlyCard ==
    /\ (prog = "ledger" /\ sPc = "idle" /\ evalFailedAt > 0) => evalFailedAt = Len(vocabList)
    /\ (prog = "unit" /\ evalFailedAt > 0) => uPc # "failed"

SkipSentinel == IF prog = "ledger" THEN 0 - 1 ELSE 0

\* C6: a card whose final input is empty or blank ends with the skip sentinel and without
\* an evaluator call; a card with another final input has exactly one evaluator call.
C6_SkipWithoutEvaluator ==
    cardEnd.calls >= 0 =>
       IF IsBlank(cardEnd.raw)
       THEN cardEnd.calls = 0 /\ cardEnd.rating = SkipSentinel
       ELSE cardEnd.calls = 1

\* C6, witness: a blank input has ended a card of the ledger path with rating -1
C6_Witness ==
    prog = "ledger" /\ cardEnd.raw = <<" ">> /\ cardEnd.calls = 0 /\ cardEnd.rating = 0 - 1

\* C7: after align_all every row of the vocabulary table carries the maximum date, the sum
\* of the ratings and the count of the ledger's records of its own (source, translation).
C7_AlignAllRows ==
    (prog = "ledger" /\ sPc = "idle" /\ lastOutcome = "completed") =>
       \A i \in 1..Len(sheetVocab) :
          LET row == sheetVocab[i]
              recs == PairRecords(sheetPerf, row.source, row.translation)
          IN  /\ row.overallRating = RatingSum(sheetPerf, recs)
              /\ row.numRatings = Cardinality(recs)
              /\ row.lastCheck = LatestDate(sheetPerf, recs)

\* C8: at every call of pick_random_vocabularies the overall rating and num ratings that
\* weight a row are the sum and the count of the ledger's records of the row's pair.
C8_NoStaleAggregates ==
    (prog = "ledger" /\ sPc # "idle") =>
       \A i \in poolRows :
          LET row == vocabData[i]
              recs == PairRecords(pickLedger, row.source, row.translation)
          IN  /\ row.overallRating = RatingSum(pickLedger, recs)
              /\ row.numRatings = Cardinality(recs)

\* C9: every completed ask_and_rate appends exactly one record (rating -1 for a skipped
\* card), no step of a session changes or removes a record of the ledger, and the
\* persisted ledger only grows.
C9_LedgerAppendOnly ==
    [][ /\ (sPc = "answered" /\ sPc' \in {"posed", "finishing"}) =>
              /\ Len(perfData') = Len(perfData) + 1
              /\ perfData'[Len(perfData')].source = vocabData[vocabList[cardIdx]].source
              /\ perfData'[Len(perfData')].translation = vocabData[vocabList[cardIdx]].translation
              /\ IsBlank(cardEnd.raw) => perfData'[Len(perfData')].rating = 0 - 1
        /\ sPc # "idle" => IsPrefix(perfData, perfData')
        /\ IsPrefix(sheetPerf, sheetPerf')
      ]_vars

\* C9, witness: the ledger holds two records, one of them of a skipped card
C9_Witness ==
    /\ prog = "ledger" /\ Len(perfData) >= 2
    /\ \E i \in 1..Len(perfData) : perfData[i].rating = 0 - 1

CompleteRecord(r) ==
    /\ DOMAIN r = {"date", "source", "translation", "user_input", "rating", "hint", "direction"}
    /\ r.date > 0
    /\ r.direction = "source"
    /\ \/ r.rating = 0 - 1 /\ r.user_input = <<>> /\ r.hint = <<>>
       \/ r.rating >= 0 /\ r.user_input # <<>>

\* C10: when the evaluator fails or the session is cancelled during a card, the ledger
\* holds exactly the records it held when the card started, and every record of the
\* ledger is complete.
C10_RecordAtomic ==
    [][ /\ (sPc \in {"posed", "answered"} /\ sPc' = "idle") =>
              (perfData' = cardStartLedger /\ IsPrefix(sheetPerf', cardStartLedger))
        /\ \A i \in 1..Len(perfData') : CompleteRecord(perfData'[i])
        /\ \A i \in 1..Len(sheetPerf') : CompleteRecord(sheetPerf'[i])
      ]_vars

\* C10, witness: the evaluator failed on the second card after the first card was recorded
C10_Witness ==
    prog = "ledger" /\ lastOutcome = "EvalError" /\ evalFailedAt = 2 /\ Len(perfData) >= 1

\* ------------------------------------------------------------- entries, store
StoreIds == [i \in 1..Len(stVocabs) |-> stVocabs[i].data_id]

\* C11: two entries built from different (language, vocab_types, meaning_en) triples, in
\* particular from the same language and meaning_en with different vocab_types, never
\* carry the same derived id.
C11_DistinctTriplesDistinctIds ==
    \A i, j \in 1..Len(stVocabs) :
        (/\ ~IsHollow(stVocabs[i]) /\ ~IsHollow(stVocabs[j])
         /\ VocabKey(stVocabs[i]) # VocabKey(stVocabs[j]))
            => stVocabs[i].data_id # stVocabs[j].data_id

\* C12: entries constructed from the same (language, vocab_types, meaning_en) carry the
\* same derived id, whatever word, categories and linked_items they were given.
C12_ContentAddressing ==
    \A i, j \in 1..Len(stVocabs) :
        (/\ ~IsHollow(stVocabs[i]) /\ ~IsHollow(stVocabs[j])
         /\ VocabKey(stVocabs[i]) = VocabKey(stVocabs[j]))
            => stVocabs[i].data_id = stVocabs[j].data_id

C12_Witness ==
    \E i, j \in 1..Len(stVocabs) :
        /\ ~IsHollow(stVocabs[i])
        /\ VocabKey(stVocabs[i]) = VocabKey(stVocabs[j])
        /\ stVocabs[i].word # stVocabs[j].word
        /\ stVocabs[i].categories # stVocabs[j].categories
        /\ stVocabs[i].linked_items # stVocabs[j].linked_items

\* C13: after any sequence of load, add and extend the in-memory collection of the store
\* never holds two entries with the same id.
C13_StoreHoldsNoDuplicateIds == NoRepeats(StoreIds)

\* the entry v is what the readable file f holds: same id, and the attributes written
\* in the file, each with the value written
SameAsFile(v, f) ==
    /\ f.body # None /\ v.data_id = f.data_id
    /\ LET b == f.body[1]
       IN  /\ v.meaning_en = (IF "meaning_en" \in b.attrs THEN b.meaning_en ELSE <<>>)
           /\ v.language = (IF "language" \in b.attrs THEN b.language ELSE <<>>)
           /\ v.vocab_types = (IF "vocab_types" \in b.attrs THEN b.vocab_types ELSE <<>>)
           /\ v.word = (IF "word" \in b.attrs THEN b.word ELSE NoWord)
           /\ v.categories = b.categories /\ v.linked_items = b.linked_items

\* C14: a load over a directory with an unreadable file does not abort; afterwards the
\* store holds every readable persisted entry and nothing for the unreadable one.
C14_LoadFailsSoftly ==
    (prog = "store" /\ stLast = "load") =>
        /\ stPc = "ready"
        /\ \A f \in files : f.body # None => \E i \in 1..Len(stVocabs) : SameAsFile(stVocabs[i], f)
        /\ \A i \in 1..Len(stVocabs) : \E f \in files : SameAsFile(stVocabs[i], f)

\* ----------------------------------------------------------------- translator
\* C15: every entry translate_batch returns has the target language as its language,
\* whatever language the generator wrote into the item.
C15_TranslatedIntoTargetLanguage ==
    prog = "trans" => \A i \in 1..Len(tResults) : tResults[i].language = TargetLanguage

Ceil(a, b) == (a + b - 1) \div b

\* source_vocabs[(k-1)*batch_size : k*batch_size]
SliceOf(k) == SubSeq(tSources, (k - 1) * tBatch + 1, Min(k * tBatch, Len(tSources)))

TotalSlices == Ceil(Len(tSources), tBatch)

\* C16: translate_batch hands each consecutive slice of batch_size sources to the
\* generator exactly once, in list order, ceil(len/batch_size) calls when it returns; a
\* batch without a new entry is not retried and does not end the loop, and the entries
\* of the earlier batches stay in the result.
C16_TranslateBatchCalls ==
    [][ prog = "trans" =>
          /\ \A k \in 1..Len(tCalls') : tCalls'[k] = SliceOf(k)
          /\ tPc' = "done" => Len(tCalls') = TotalSlices
          /\ (tPc = "loop" /\ tPc' # "raised") =>
                /\ Len(tCalls') = Len(tCalls) + 1
                /\ IsPrefix(tResults, tResults')
                /\ (tPc' = "loop") = (Len(tCalls') < TotalSlices) ]_vars

C16_Witness ==
    /\ prog = "trans" /\ tPc = "loop" /\ Len(tCalls) = 2
    /\ lastResp = ListResponse(<<>>) /\ tResults # <<>>

\* ------------------------------------------------------------------- sessions
\* the k-th record the running (or just completed) session appended to the ledger
SessionRecord(k) == perfData[Len(pickLedger) + k]

ResultMatchesCard(result, card) ==
    /\ result.meaning_en = card.src.meaning_en
    /\ result.source_word = card.src.word
    /\ result.target_word = card.tgt.word

\* C17: a session draws its selection once, presents the selected cards one after
\* another in the order of the selection, and when no call fails it yields exactly one
\* result per selected card in that order (on the ledger path the results are the
\* records the session appends).
C17_CardsInSelectionOrder ==
    [][ /\ (prog = "ledger" /\ sPc # "idle") =>
              /\ vocabList' = vocabList
              /\ cardIdx' \in {cardIdx, cardIdx + 1}
        /\ (prog = "ledger" /\ lastOutcome' \in {"running", "completed"}) =>
              /\ Len(perfData') = Len(pickLedger') + cardIdx' - 1
              /\ \A k \in 1..(cardIdx' - 1) :
                    << SessionRecord(k).source, SessionRecord(k).translation >>'
                        = WordsOf(vocabData', vocabList'[k])
              /\ lastOutcome' = "completed" => cardIdx' = Len(vocabList') + 1
        /\ (prog = "unit" /\ uPc # "idle") =>
              /\ uCards' = uCards
              /\ uIdx' \in {uIdx, uIdx + 1}
        /\ (prog = "unit" /\ uPc' \in {"posed", "evaluating", "done"}) =>
              /\ Len(uResults') = uIdx' - 1
              /\ \A k \in 1..Len(uResults') : ResultMatchesCard(uResults'[k], uCards'[k])
              /\ uPc' = "done" => Len(uResults') = Len(uCards') ]_vars

C17_Witness ==
    /\ prog = "ledger" /\ lastOutcome = "completed" /\ Len(vocabList) = 2
    /\ pickLedger # <<>>
    /\ Len(perfData) = Len(pickLedger) + 2

\* C18: while a card is posed the inputs 1, 2 and 3 may be given any number of times in
\* any order; each keeps the card posed, calls no evaluator and ends nothing, and input 2
\* plays an example sentence.
C18_OptionsKeepCardPosed ==
    [][ (optionTaken' # NoOption /\ optionTaken' # optionTaken) =>
          /\ evalCalls' = evalCalls
          /\ prog = "ledger" => (sPc' = "posed" /\ cardIdx' = cardIdx /\ perfData' = perfData)
          /\ prog = "unit" => (uPc' = "posed" /\ uIdx' = uIdx /\ uResults' = uResults)
          /\ optionTaken'.input = "2" => optionTaken'.effect = "say_sentence" ]_vars

\* ----------------------------------------------------------------- aggregates
\* positions of the ledger's records for a (source, translation, direction) key
KeyRecords(ledger, source, translation, direction) ==
    { i \in 1..Len(ledger) : /\ ledger[i].source = source
                             /\ ledger[i].translation = translation
                             /\ ledger[i].direction = direction }

\* C19: for every ledger content and every key the aggregate is the sum of the ratings
\* of the matching records (the sentinel -1 included), their number and their largest
\* date; without a backing table or without a matching record it is (0, 0, "").
C19_AggregateOfLedger ==
    prog = "ledger" =>
        \A k \in 1..Len(VocabUniverse), direction \in {"source", "translation"} :
            LET source == VocabUniverse[k].source
                translation == VocabUniverse[k].translation
                idx == KeyRecords(perfData, source, translation, direction)
                agg == Aggregate(Some(perfData), source, translation, direction)
                none == Aggregate(None, source, translation, direction)
            IN  /\ agg.overall_rating = RatingSum(perfData, idx)
                /\ agg.num_ratings = Cardinality(idx)
                /\ idx # {} => /\ \E i \in idx : agg.last_check = perfData[i].date
                               /\ \A i \in idx : agg.last_check >= perfData[i].date
                /\ idx = {} => agg.last_check = NoDate
                /\ none = [overall_rating |-> 0, num_ratings |-> 0, last_check |-> NoDate]

C19_Witness ==
    /\ prog = "ledger"
    /\ \E i, j \in 1..Len(perfData) :
          /\ perfData[i].source = perfData[j].source
          /\ perfData[i].translation = perfData[j].translation
          /\ perfData[i].rating = SkipRating
          /\ perfData[j].rating > 0

\* ---------------------------------------------------------------------- weights
\* C20: a row with zero attempts gets weight exactly 1 under the default neutral of 50,
\* whatever overall rating is stored in it.
C20_ZeroAttemptsWeightOne ==
    (prog = "weights" /\ wWeights # None /\ wNeutral = NeutralAvg) =>
        \A i \in 1..Len(wTable) :
            wTable[i].numRatings = 0 => WeightIsOne(wWeights[1][i])

C20_Witness ==
    /\ prog = "weights" /\ wWeights # None /\ wNeutral = NeutralAvg
    /\ \E i, j \in 1..Len(wTable) :
          /\ wTable[i].numRatings = 0 /\ wTable[i].overallRating = 90
          /\ WeightIsOne(wWeights[1][i])
          /\ ~WeightIsOne(wWeights[1][j])

\* the averages of two rows with attempts, compared without dividing
AvgLess(r, q) == r.overallRating * q.numRatings < q.overallRating * r.numRatings

AvgEqual(r, q) == r.overallRating * q.numRatings = q.overallRating * r.numRatings

\* 2 ** (a / b) < 2 ** (c / d) for positive b and d
WeightLess(w, v) == w.expNum * v.expDen < v.expNum * w.expDen

\* C21: among rows with at least one attempt, under the default neutral of 50: for equal
\* attempts the row with the higher average has the strictly smaller weight; for equal
\* averages below neutral the row with more attempts has the strictly larger weight, for
\* equal averages above neutral the strictly smaller one; a row whose average is the
\* neutral has weight 1 whatever its attempts.
C21_WeightMonotone ==
    (prog = "weights" /\ wWeights # None /\ wNeutral = NeutralAvg) =>
        \A i, j \in 1..Len(wTable) :
            LET r == wTable[i]
                q == wTable[j]
                w == wWeights[1][i]
                v == wWeights[1][j]
            IN  (r.numRatings >= 1 /\ q.numRatings >= 1) =>
                  /\ (r.numRatings = q.numRatings /\ AvgLess(r, q)) => WeightLess(v, w)
                  /\ (AvgEqual(r, q) /\ r.numRatings < q.numRatings
                        /\ r.overallRating < wNeutral * r.numRatings) => WeightLess(w, v)
                  /\ (AvgEqual(r, q) /\ r.numRatings < q.numRatings
                        /\ r.overallRating > wNeutral * r.numRatings) => WeightLess(v, w)
                  /\ r.overallRating = wNeutral * r.numRatings => WeightIsOne(w)

C21_Witness ==
    /\ prog = "weights" /\ wWeights # None /\ wNeutral = NeutralAvg
    /\ wTable = << [overallRating |-> 40, numRatings |-> 1],
                   [overallRating |-> 80, numRatings |-> 2] >>
    /\ WeightLess(wWeights[1][1], wWeights[1][2])

NoDuplicateEdges(linked_items) ==
    \A i, j \in 1..Len(linked_items) :
        (i # j) => ~(/\ linked_items[i].data_id = linked_items[j].data_id
                    /\ linked_items[i].relation = linked_items[j].relation)

\* C24: the base entry starts without duplicate edges; after every sentence-linking run,
\* whatever the generator returned, the base's linked_items and the linked_items of
\* every sentence returned hold no two edges with the same (data_id, relation).
C24_EdgeInsertionIdempotent ==
    prog = "sent" =>
        /\ NoDuplicateEdges(bBase.linked_items)
        /\ \A i \in 1..Len(bResults) : NoDuplicateEdges(bResults[i].linked_items)

\* the second run returned the same sentence twice and had linked it in the first run
C24_Witness ==
    /\ prog = "sent" /\ bRuns = 2 /\ bPc = "done"
    /\ Len(bResults) = 2 /\ bResults[1].data_id = bResults[2].data_id
    /\ Len(bBase.linked_items) = 1
    /\ HasEdge(bBase.linked_items, bResults[1].data_id, "example_sentence")

\* C25: after a sentence-linking run, for every sentence returned the base has an
\* example_sentence edge to the sentence's id, the sentence has an example_for edge to
\* the base's id, and the sentence's categories contain 'example_sentence'.
C25_EdgesSymmetric ==
    (prog = "sent" /\ bPc = "done") =>
        \A i \in 1..Len(bResults) :
            /\ HasEdge(bBase.linked_items, bResults[i].data_id, "example_sentence")
            /\ HasEdge(bResults[i].linked_items, bBase.data_id, "example_for")
            /\ Contains(bResults[i].categories, ExampleSentence)

\* the edge part of C25 alone
C25_EdgesOnly ==
    (prog = "sent" /\ bPc = "done") =>
        \A i \in 1..Len(bResults) :
            /\ HasEdge(bBase.linked_items, bResults[i].data_id, "example_sentence")
            /\ HasEdge(bResults[i].linked_items, bBase.data_id, "example_for")

\* -------------------------------------------------------------------- the card
\* C22: constructing a unit raises the mismatch error whenever the two entries differ
\* in meaning_en or in the vocab_types list (compared in order), and does not raise it
\* when both are equal.
C22_UnitRequiresSameKey ==
    (prog = "card" /\ cUnit # "none") =>
        ((cUnit \in {"ValueError: meaning_en", "ValueError: vocab_types"})
            <=> (\/ cSource.meaning_en # cTarget.meaning_en
                 \/ Len(cSource.vocab_types) # Len(cTarget.vocab_types)
                 \/ \E i \in 1..Len(cSource.vocab_types) :
                        cSource.vocab_types[i] # cTarget.vocab_types[i]))

\* the two lists hold the same types in another order, and the constructor raised
C22_Witness ==
    /\ prog = "card" /\ cUnit = "ValueError: vocab_types"
    /\ cSource.meaning_en = cTarget.meaning_en
    /\ cSource.vocab_types = << NOUN, PHRASE >> /\ cTarget.vocab_types = << PHRASE, NOUN >>

\* ------------------------------------------------------------ linked sentences
\* the ids load_linked_sentences has to return entries for: the targets of the
\* example_sentence edges, in edge order, each once, that have a readable file
RECURSIVE LoadableTargets(_, _, _)
LoadableTargets(links, fs, seen) ==
    IF links = <<>> THEN <<>>
    ELSE LET link == Head(links)
             wanted == /\ link.relation = "example_sentence" /\ link.data_id # <<>>
                       /\ link.data_id \notin seen
             loadable == \E f \in fs : f.data_id = link.data_id /\ f.body # None
         IN  (IF wanted /\ loadable THEN << link.data_id >> ELSE <<>>)
             \o LoadableTargets(Tail(links), fs, IF wanted THEN seen \cup {link.data_id} ELSE seen)

\* C26: the list load_linked_sentences returns holds, in edge order, one entry per
\* distinct target id of the example_sentence edges whose file can be read, each entry
\* being what that file holds, and nothing else: other relations, edges without a
\* target id, repeated ids and targets that cannot be loaded contribute no entry.
C26_LinkedSentencesLoaded ==
    (prog = "entry" /\ eLast = "load_linked_sentences") =>
        LET targets == LoadableTargets(eObj[1].linked_items, files, {})
        IN  /\ Len(eLinked[1]) = Len(targets)
            /\ \A i \in 1..Len(targets) :
                  \E f \in files : f.data_id = targets[i] /\ SameAsFile(eLinked[1][i], f)

\* C26 when every target of an edge has a file and unreadable files raise
C26_WhenTargetsExist ==
    (/\ prog = "entry" /\ eLast = "load_linked_sentences" /\ cacheMode = "raises"
     /\ \A i \in 1..Len(eObj[1].linked_items) :
           eObj[1].linked_items[i].data_id # <<>>
              => \E f \in files : f.data_id = eObj[1].linked_items[i].data_id) =>
        LET targets == LoadableTargets(eObj[1].linked_items, files, {})
        IN  /\ Len(eLinked[1]) = Len(targets)
            /\ \A i \in 1..Len(targets) :
                  \E f \in files : f.data_id = targets[i] /\ SameAsFile(eLinked[1][i], f)

\* ------------------------------------------------------------------ round trip
SameContent(v, w) ==
    /\ v.word = w.word /\ v.categories = w.categories
    /\ v.vocab_types = w.vocab_types /\ v.linked_items = w.linked_items

\* the entry of the store written last to the file of its id by save_all
LastOfId(vocabs, i) == \A j \in (i + 1)..Len(vocabs) : vocabs[j].data_id # vocabs[i].data_id

C30_PersistedWins ==
    [][(prog = "entry" /\ eLast' = "construct" /\ eObj' # None) =>
          /\ files' = files
          /\ \A f \in files :
                (f.data_id = eObj'[1].data_id /\ f.body # None) =>
                   /\ eObj'[1].categories = f.body[1].categories
                   /\ eObj'[1].linked_items = f.body[1].linked_items
                   /\ IF "word" \in f.body[1].attrs THEN eObj'[1].word = f.body[1].word
                      ELSE eObj'[1].word = NoWord]_vars

\* C30 for a persisted entry that has a word
C30_WhenWordPersisted ==
    [][(prog = "entry" /\ eLast' = "construct" /\ eObj' # None) =>
          /\ files' = files
          /\ \A f \in files :
                (f.data_id = eObj'[1].data_id /\ f.body # None
                   /\ "word" \in f.body[1].attrs) =>
                   /\ eObj'[1].categories = f.body[1].categories
                   /\ eObj'[1].linked_items = f.body[1].linked_items
                   /\ eObj'[1].word = f.body[1].word]_vars

\* ------------------------------------------------------------ candidate pool
\* the entries of the store the session's filters admit, by language
Admitted(language) ==
    { i \in 1..Len(store) :
        /\ store[i].language = language
        /\ (uTypes = <<>> \/ store[i].vocab_types = uTypes)
        /\ (uCats = <<>> \/ \E c \in 1..Len(uCats), d \in 1..Len(store[i].categories) :
                                uCats[c] = store[i].categories[d]) }

SameKey(v, w) == v.meaning_en = w.meaning_en /\ v.vocab_types = w.vocab_types

PoolIsJoin ==
    /\ \A i \in Admitted(SourceLanguage), j \in Admitted(TargetLanguage) :
          SameKey(store[i], store[j]) =>
             \E p \in 1..Len(uPool) : SameKey(uPool[p].src, store[i])
    /\ \A p, q \in 1..Len(uPool) : (p # q) => ~SameKey(uPool[p].src, uPool[q].src)
    /\ \A p \in 1..Len(uPool) :
          /\ \E i \in Admitted(SourceLanguage) : uPool[p].src = store[i]
          /\ \E j \in Admitted(TargetLanguage) : uPool[p].tgt = store[j]
          /\ uPool[p].src.language = SourceLanguage
          /\ uPool[p].tgt.language = TargetLanguage
          /\ SameKey(uPool[p].src, uPool[p].tgt)

\* C23: for every store content, once the cards are selected the candidate pool holds
\* one pair for every (meaning_en, vocab_types) key that has an admitted entry in the
\* source language and one in the target language, no two pairs of one key and no
\* other pair; every pair is made of a source-language and a target-language entry of
\* the store with equal meaning_en and vocab_types.
C23_PoolIsJoin == (prog = "unit" /\ uPc # "idle") => PoolIsJoin

\* C23 for stores whose entries all have a word
C23_WhenWordsNonEmpty ==
    (prog = "unit" /\ uPc # "idle" /\ \A i \in 1..Len(store) : store[i].word # <<>>)
        => PoolIsJoin

\* ------------------------------------------------------------------ generate
KeyTriple(v) == << v.language, v.meaning_en, v.vocab_types >>

\* C28: a generate call that returns gives at most n entries, no two of them with the
\* same (language, meaning_en, vocab_types) and none with the triple of an entry of
\* existing_vocab, whatever the generator answered.
C28_GenerateDistinct ==
    (prog = "gen" /\ gPc = "done") =>
        /\ Len(gReturned) <= gN
        /\ \A i, j \in 1..Len(gReturned) :
              (i # j) => KeyTriple(gReturned[i]) # KeyTriple(gReturned[j])
        /\ \A i \in 1..Len(gReturned), e \in 1..Len(gExisting) :
              KeyTriple(gReturned[i]) # KeyTriple(gExisting[e])

\* one entry was asked for, the generator answered two new ones, one was returned
C28_Witness ==
    /\ prog = "gen" /\ gPc = "done" /\ gMode = "any"
    /\ gN = 1 /\ Len(gResults) = 2 /\ Len(gReturned) = 1 /\ gExisting # <<>>
====
